---- MODULE Spec2Model ----
(***************************************************************************)
(* A model of the MP numerics kernel of the nail-art repository            *)
(* (src/qip_win/MP/header): the direct solvers MP_GaussJordan,             *)
(* MP_GaussElimination and MP_tridiagonal, and the generic matrix          *)
(* procedures MP_getDiag / MP_setDiag.                                     *)
(*                                                                         *)
(* Matrices are the flat row-major arrays the code walks with pointers:    *)
(* functions over 0..rows*cols-1.  Numbers are exact rationals <<n, d>>    *)
(* in lowest terms with d > 0; a division by zero, which IEEE doubles      *)
(* answer with an infinity or a NaN, yields the one value NonFinite, which *)
(* every later operation propagates.                                       *)
(***************************************************************************)
EXTENDS Integers, Sequences, FiniteSets, TLC

(***************************************************************************)
(* Bounds of the checked input sets.                                       *)
(***************************************************************************)
\* largest dimension n of the square systems given to the Gauss solvers
MaxN == 3
\* entries of the 1x1 and 2x2 coefficient matrices range over -MaxVal..MaxVal
MaxVal == 1
\* largest number m of right-hand-side columns
MaxM == 2
\* largest number of rows of the tridiagonal systems
TriMaxN == 3
\* diagonal entries of the tridiagonal systems range over 0..TriMaxVal
TriMaxVal == 2
\* largest number of rows and of columns of the matrices given to
\* MP_getDiag and MP_setDiag
DiagMaxDim == 4
\* largest size of the vector given to MP_getDiag and MP_setDiag
DiagMaxLen == 3
\* largest number of rows and of columns of the matrices given to
\* MP_swapRows and MP_swapCols
SwapMaxDim == 3
\* the components of the integer quaternions range over
\* -QuatMaxVal..QuatMaxVal
QuatMaxVal == 2
\* largest number of rows and of columns of the matrices given to MP_LUdcmp
LuMaxDim == 3
\* largest number of rows and of columns of the matrices given to MP_svd
SvdMaxDim == 3
\* the singular values of those matrices range over 1..SvdMaxVal
SvdMaxVal == 3
\* largest number of rows and of columns of the matrices given to
\* MP_matrixMultiply
MulMaxDim == 2
\* largest number of rows of the matrix D given to MP_lls
LlsMaxRows == 3
\* largest number of columns of D and of the right-hand side B
LlsMaxCols == 2
\* MP_RQdcmp: matrices of up to RqMaxRows rows and RqMaxCols columns
RqMaxRows == 4
RqMaxCols == 3

\* how far, in slider steps, the user moves a filter control from its default
MwMaxMove == 1

\* GLWidget: the GL context has GlMaxLists display-list names; the view is
\* turned at most GlMaxTurn half degrees about each axis
GlMaxLists == 12
GlMaxTurn == 1

(***************************************************************************)
(* Exact arithmetic standing for the code's double.                        *)
(***************************************************************************)
NonFinite == <<1, 0>>

IAbs(i) == IF i < 0 THEN -i ELSE i

RECURSIVE GCD(_, _)
GCD(a, b) == IF b = 0 THEN a ELSE GCD(b, a % b)

\* the rational n/d in lowest terms, sign carried by the numerator
Norm(n, d) ==
  IF d = 0 THEN NonFinite
  ELSE LET g == GCD(IAbs(n), IAbs(d))
           s == IF d < 0 THEN -1 ELSE 1
       IN  <<(s * n) \div g, (s * d) \div g>>

R(i) == <<i, 1>>
IsFinite(a) == a[2] # 0
RIsZero(a) == a[2] # 0 /\ a[1] = 0

RAdd(a, b) == IF a[2] = 0 \/ b[2] = 0 THEN NonFinite
              ELSE Norm(a[1] * b[2] + b[1] * a[2], a[2] * b[2])
RSub(a, b) == IF a[2] = 0 \/ b[2] = 0 THEN NonFinite
              ELSE Norm(a[1] * b[2] - b[1] * a[2], a[2] * b[2])
RMul(a, b) == IF a[2] = 0 \/ b[2] = 0 THEN NonFinite
              ELSE Norm(a[1] * b[1], a[2] * b[2])
\* a / b as the hardware computes it: a zero divisor gives no finite value
RDiv(a, b) == IF a[2] = 0 \/ b[2] = 0 \/ b[1] = 0 THEN NonFinite
              ELSE Norm(a[1] * b[2], a[2] * b[1])
\* a < b on finite values (every comparison with a NaN is false)
RLess(a, b) == a[2] # 0 /\ b[2] # 0 /\ a[1] * b[2] < b[1] * a[2]

\* MP_abs on a double; IAbs above is the same template on an int
MP_abs(a) == IF a[2] = 0 THEN a ELSE <<IAbs(a[1]), a[2]>>
\* MP_min on ints
MP_min(a, b) == IF a < b THEN a ELSE b

(***************************************************************************)
(* Flat row-major matrices.                                                *)
(***************************************************************************)
\* rows i and j of the cols-wide array M exchanged (a loop of MP_swap)
SwapRowsFlat(M, cols, i, j) ==
  [k \in DOMAIN M |->
     IF k \div cols = i THEN M[j * cols + (k % cols)]
     ELSE IF k \div cols = j THEN M[i * cols + (k % cols)]
     ELSE M[k]]

\* columns i and j of the cols-wide array M exchanged
SwapColsFlat(M, cols, i, j) ==
  [k \in DOMAIN M |->
     IF k % cols = i THEN M[(k \div cols) * cols + j]
     ELSE IF k % cols = j THEN M[(k \div cols) * cols + i]
     ELSE M[k]]

(***************************************************************************)
(* MP_GaussJordan (MPgauss.tpp).  A run is a record: the arguments A and X *)
(* as the caller sees them, the bookkeeping arrays, the loop index, the    *)
(* text written to std::cerr and the state of the heap buffer buf.         *)
(***************************************************************************)
GJ_Singular == "MP_GaussJordan: Singular Matrix"

\* lines 53-80: X = B, the 1x1 special case, the bookkeeping arrays
GJ_Begin(A, B, n, m) ==
  LET base == [n |-> n, m |-> m, A |-> A, X |-> B,
               pivotflg |-> [k \in 0..(n-1) |-> 0],
               row_indx |-> [k \in 0..(n-1) |-> -1],
               col_indx |-> [k \in 0..(n-1) |-> -1],
               i |-> 0, irow |-> 0, icol |-> 0,
               err |-> "", buf |-> "none", pc |-> "loop"]
  IN  IF n = 1
      THEN IF RIsZero(A[0])
           THEN [base EXCEPT !.err = GJ_Singular, !.pc = "done"]
           ELSE [base EXCEPT !.X = [k \in DOMAIN B |-> RDiv(B[k], A[0])],
                             !.A = [k \in DOMAIN A |-> RDiv(R(1), A[0])],
                             !.pc = "done"]
      ELSE [base EXCEPT !.buf = "allocated"]

\* the scan that leaves out the test of the column's flag
RECURSIVE GJ_FindPivotAnyColumn(_, _, _, _, _)
GJ_FindPivotAnyColumn(A, pivotflg, n, k, found) ==
  IF k = n * n THEN found
  ELSE IF pivotflg[k \div n] = 0 /\ RLess(found[1], MP_abs(A[k]))
       THEN GJ_FindPivotAnyColumn(A, pivotflg, n, k + 1,
                                  <<MP_abs(A[k]), k \div n, k % n>>)
       ELSE GJ_FindPivotAnyColumn(A, pivotflg, n, k + 1, found)

\* lines 86-101: the scan for the biggest element among unused rows and
\* columns, in the code's row-major order; k = row*n + col is the position
\* of the scan and <<big, irow, icol>> what it has found so far
RECURSIVE GJ_FindPivot(_, _, _, _, _)
GJ_FindPivot(A, pivotflg, n, k, found) ==
  IF k = n * n THEN found
  ELSE LET row == k \div n
           col == k % n
       IN  IF pivotflg[row] = 0 /\ pivotflg[col] = 0
              /\ RLess(found[1], MP_abs(A[k]))
           THEN GJ_FindPivot(A, pivotflg, n, k + 1, <<MP_abs(A[k]), row, col>>)
           ELSE GJ_FindPivot(A, pivotflg, n, k + 1, found)

\* lines 126-132: divide the pivot row of the coefficient matrix by the pivot
GJ_ScaleA(A, n, icol) ==
  LET pivinv == RDiv(R(1), A[icol * n + icol])
  IN  [k \in DOMAIN A |->
         IF k \div n = icol
         THEN (IF k % n = icol THEN pivinv ELSE RMul(A[k], pivinv))
         ELSE A[k]]

\* lines 126-132: divide the pivot row of the solution block by the pivot
GJ_ScaleX(X, m, pivinv, icol) ==
  [k \in DOMAIN X |-> IF k \div m = icol THEN RMul(X[k], pivinv) ELSE X[k]]

\* lines 135-144: subtract the pivot row from every other row of A
GJ_ReduceA(A, n, icol) ==
  [k \in DOMAIN A |->
     IF k \div n = icol THEN A[k]
     ELSE LET r == A[(k \div n) * n + icol]
              old == IF k % n = icol THEN R(0) ELSE A[k]
          IN  RSub(old, RMul(A[icol * n + (k % n)], r))]

\* lines 145-149: the same subtraction on the solution block; A is the
\* coefficient matrix before the reduction, whose column icol holds r
GJ_ReduceX(X, A, n, m, icol) ==
  [k \in DOMAIN X |->
     IF k \div m = icol THEN X[k]
     ELSE RSub(X[k], RMul(X[icol * m + (k % m)], A[(k \div m) * n + icol]))]

\* the iteration without the test of big against zero
GJ_IterateUnchecked(s) ==
  LET n     == s.n
      m     == s.m
      found == GJ_FindPivot(s.A, s.pivotflg, n, 0, <<R(0), s.irow, s.icol>>)
      irow  == found[2]
      icol  == found[3]
      A1    == IF irow # icol THEN SwapRowsFlat(s.A, n, irow, icol) ELSE s.A
      X1    == IF irow # icol THEN SwapRowsFlat(s.X, m, irow, icol) ELSE s.X
      pivinv == RDiv(R(1), A1[icol * n + icol])
      A2    == GJ_ScaleA(A1, n, icol)
      X2    == GJ_ScaleX(X1, m, pivinv, icol)
  IN  [s EXCEPT !.pivotflg[icol] = @ + 1,
                !.irow = irow, !.icol = icol,
                !.row_indx[s.i] = irow, !.col_indx[s.i] = icol,
                !.A = GJ_ReduceA(A2, n, icol),
                !.X = GJ_ReduceX(X2, A2, n, m, icol),
                !.i = s.i + 1,
                !.pc = IF s.i + 1 < n THEN "loop" ELSE "unscramble"]

\* lines 85-152: one iteration of the pivoting loop
GJ_Iterate(s) ==
  LET n     == s.n
      m     == s.m
      found == GJ_FindPivot(s.A, s.pivotflg, n, 0, <<R(0), s.irow, s.icol>>)
      big   == found[1]
      irow  == found[2]
      icol  == found[3]
      A1    == IF irow # icol THEN SwapRowsFlat(s.A, n, irow, icol) ELSE s.A
      X1    == IF irow # icol THEN SwapRowsFlat(s.X, m, irow, icol) ELSE s.X
      pivinv == RDiv(R(1), A1[icol * n + icol])
      A2    == GJ_ScaleA(A1, n, icol)
      X2    == GJ_ScaleX(X1, m, pivinv, icol)
  IN  IF RIsZero(big)
      THEN [s EXCEPT !.err = GJ_Singular, !.pc = "done"]
      ELSE [s EXCEPT !.pivotflg[icol] = @ + 1,
                     !.irow = irow, !.icol = icol,
                     !.row_indx[s.i] = irow, !.col_indx[s.i] = icol,
                     !.A = GJ_ReduceA(A2, n, icol),
                     !.X = GJ_ReduceX(X2, A2, n, m, icol),
                     !.i = s.i + 1,
                     !.pc = IF s.i + 1 < n THEN "loop" ELSE "unscramble"]

\* the unscrambling with the interchanges undone in the order they were made
RECURSIVE GJ_UnscrambleUpFrom(_, _, _, _, _)
GJ_UnscrambleUpFrom(A, n, row_indx, col_indx, i) ==
  IF i >= n THEN A
  ELSE GJ_UnscrambleUpFrom(
         IF row_indx[i] # col_indx[i]
         THEN SwapColsFlat(A, n, row_indx[i], col_indx[i]) ELSE A,
         n, row_indx, col_indx, i + 1)
GJ_UnscrambleInBuildOrder(A, n, row_indx, col_indx, i) ==
  GJ_UnscrambleUpFrom(A, n, row_indx, col_indx, 0)

\* lines 158-168: undo the column interchanges, last one first; i counts down
RECURSIVE GJ_UnscrambleFrom(_, _, _, _, _)
GJ_UnscrambleFrom(A, n, row_indx, col_indx, i) ==
  IF i < 0 THEN A
  ELSE GJ_UnscrambleFrom(
         IF row_indx[i] # col_indx[i]
         THEN SwapColsFlat(A, n, row_indx[i], col_indx[i]) ELSE A,
         n, row_indx, col_indx, i - 1)

\* lines 158-169: the unscrambling loop and delete [] buf
GJ_Unscramble(s) ==
  [s EXCEPT !.A = GJ_UnscrambleFrom(s.A, s.n, s.row_indx, s.col_indx, s.n - 1),
            !.buf = "freed", !.pc = "done"]

\* the whole call, for a caller that only sees the result
RECURSIVE GJ_Finish(_)
GJ_Finish(s) ==
  IF s.pc = "done" THEN s
  ELSE IF s.pc = "loop" THEN GJ_Finish(GJ_Iterate(s))
  ELSE GJ_Finish(GJ_Unscramble(s))

MP_GaussJordan(A, B, n, m) == GJ_Finish(GJ_Begin(A, B, n, m))

(***************************************************************************)
(* MP_GaussElimination (MPgauss.tpp).  divzero records that a quotient was *)
(* taken with a zero divisor.                                              *)
(***************************************************************************)
GE_Singular == "MP_GaussElimination: Singular Matrix"

\* lines 202-224: X = B and the 1x1 special case
GE_Begin(A, B, n, m) ==
  LET base == [n |-> n, m |-> m, A |-> A, X |-> B, col |-> 0,
               err |-> "", divzero |-> FALSE, pc |-> "forward"]
  IN  IF n = 1
      THEN IF RIsZero(A[0])
           THEN [base EXCEPT !.err = GE_Singular, !.pc = "done"]
           ELSE [base EXCEPT !.X = [k \in DOMAIN B |-> RDiv(B[k], A[0])],
                             !.A = [k \in DOMAIN A |-> RDiv(R(1), A[0])],
                             !.pc = "done"]
      ELSE base

\* the pivot taken from the diagonal without a search
GE_FindPivotOnDiagonal(A, n, col, row, pivot) == pivot

\* the search that moves on to a later row of equal magnitude
RECURSIVE GE_FindPivotLastOfEqual(_, _, _, _, _)
GE_FindPivotLastOfEqual(A, n, col, row, pivot) ==
  IF row >= n THEN pivot
  ELSE IF ~RLess(MP_abs(A[row * n + col]), MP_abs(A[pivot * n + col]))
       THEN GE_FindPivotLastOfEqual(A, n, col, row + 1, row)
       ELSE GE_FindPivotLastOfEqual(A, n, col, row + 1, pivot)

\* lines 229-241: the row of the pivot of column col, scanning rows
\* row..n-1 with pivot the best row so far
RECURSIVE GE_FindPivot(_, _, _, _, _)
GE_FindPivot(A, n, col, row, pivot) ==
  IF row >= n THEN pivot
  ELSE IF RLess(MP_abs(A[pivot * n + col]), MP_abs(A[row * n + col]))
       THEN GE_FindPivot(A, n, col, row + 1, row)
       ELSE GE_FindPivot(A, n, col, row + 1, pivot)

\* lines 264-273: forward elimination of column col in the coefficient matrix
GE_EliminateA(A, n, col) ==
  [k \in DOMAIN A |->
     LET row == k \div n
         c   == k % n
         r   == RDiv(A[row * n + col], A[col * n + col])
     IN  IF row > col /\ ~RIsZero(A[row * n + col])
         THEN (IF c = col THEN R(0)
               ELSE IF c > col THEN RSub(A[k], RMul(A[col * n + c], r))
               ELSE A[k])
         ELSE A[k]]

\* the row operations on the solution block reading the first column of the
\* pivot row for every column
GE_EliminateXFirstColumn(X, A, n, m, col) ==
  [k \in DOMAIN X |->
     LET row == k \div m
         r   == RDiv(A[row * n + col], A[col * n + col])
     IN  IF row > col /\ ~RIsZero(A[row * n + col])
         THEN RSub(X[k], RMul(X[col * m], r))
         ELSE X[k]]

\* lines 274-278: the same row operations on the solution block; A is the
\* coefficient matrix before the elimination of column col
GE_EliminateX(X, A, n, m, col) ==
  [k \in DOMAIN X |->
     LET row == k \div m
         r   == RDiv(A[row * n + col], A[col * n + col])
     IN  IF row > col /\ ~RIsZero(A[row * n + col])
         THEN RSub(X[k], RMul(X[col * m + (k % m)], r))
         ELSE X[k]]

\* lines 228-281: one pass of the loop over the columns of A
GE_Column(s) ==
  LET n     == s.n
      m     == s.m
      col   == s.col
      pivot == GE_FindPivot(s.A, n, col, col + 1, col)
      A1    == IF pivot # col THEN SwapRowsFlat(s.A, n, pivot, col) ELSE s.A
      X1    == IF pivot # col THEN SwapRowsFlat(s.X, m, pivot, col) ELSE s.X
  IN  IF RIsZero(s.A[pivot * n + col])
      THEN [s EXCEPT !.err = GE_Singular, !.pc = "done"]
      ELSE [s EXCEPT !.A = GE_EliminateA(A1, n, col),
                     !.X = GE_EliminateX(X1, A1, n, m, col),
                     !.col = col + 1,
                     !.pc = IF col + 1 < n - 1 THEN "forward" ELSE "backsub"]

\* lines 290-294: sum -= d1[col] * X(col, i) for col down to row+1
RECURSIVE GE_Sum(_, _, _, _, _, _, _, _)
GE_Sum(A, X, n, m, row, i, col, sum) ==
  IF col <= row THEN sum
  ELSE GE_Sum(A, X, n, m, row, i, col - 1,
              RSub(sum, RMul(A[row * n + col], X[col * m + i])))

\* lines 284-297: rows n-1 down to 0; row is the row being solved
RECURSIVE GE_BackFrom(_, _, _, _, _)
GE_BackFrom(A, X, n, m, row) ==
  IF row < 0 THEN X
  ELSE GE_BackFrom(A,
         [k \in DOMAIN X |->
            IF k \div m = row
            THEN RDiv(GE_Sum(A, X, n, m, row, k % m, n - 1, X[k]),
                      A[row * n + row])
            ELSE X[k]],
         n, m, row - 1)

\* lines 283-297: backward substitution
GE_BackSubstitute(s) ==
  [s EXCEPT !.X = GE_BackFrom(s.A, s.X, s.n, s.m, s.n - 1),
            !.divzero = \E row \in 0..(s.n - 1) : RIsZero(s.A[row * s.n + row]),
            !.pc = "done"]

\* the whole call, for a caller that only sees the result
RECURSIVE GE_Finish(_)
GE_Finish(s) ==
  IF s.pc = "done" THEN s
  ELSE IF s.pc = "forward" THEN GE_Finish(GE_Column(s))
  ELSE GE_Finish(GE_BackSubstitute(s))

MP_GaussElimination(A, B, n, m) == GE_Finish(GE_Begin(A, B, n, m))

(***************************************************************************)
(* MP_tridiagonal (MPband.tpp).  A is the n x 3 band matrix and B the      *)
(* right-hand side, both as the caller sees them; a, b, c and C are the    *)
(* function's own arrays, heap their state on the free store.              *)
(***************************************************************************)
TRI_Trivial == "MP_tridiagonal: triv. soln for RHS[1]"
TRI_ZeroPivot == "MP_tridiagonal: zero pivot"

\* the content of a double that was allocated and never assigned
Uninit == <<0, 0>>

\* lines 46-73: the buffers, the copy of the bands, the test of the first
\* diagonal element and the first row of the forward substitution
TRI_Begin(A, B, n) ==
  LET a == [k \in 0..(n - 1) |-> A[3 * k]]
      b == [k \in 0..(n - 1) |-> A[3 * k + 1]]
      c == [k \in 0..(n - 1) |-> A[3 * k + 2]]
      base == [n |-> n, A |-> A, B |-> B, a |-> a, b |-> b, c |-> c,
               C |-> [k \in 0..(n - 1) |-> Uninit], pivot |-> Uninit,
               i |-> 0, err |-> "", heap |-> "allocated", pc |-> "done"]
  IN  IF RIsZero(b[0])
      THEN [base EXCEPT !.err = TRI_Trivial]
      ELSE [base EXCEPT !.B[0] = RDiv(B[0], b[0]),
                        !.pivot = b[0],
                        !.i = 1,
                        !.pc = IF 1 < n THEN "forward" ELSE "back"]

\* the row of the forward substitution with the quotient taken before the
\* pivot is tested
TRI_ForwardDivideFirst(s) ==
  LET i     == s.i
      Ci    == RDiv(s.c[i - 1], s.pivot)
      pivot == RSub(s.b[i], RMul(s.a[i], Ci))
      ri    == RDiv(RSub(s.B[i], RMul(s.a[i], s.B[i - 1])), pivot)
  IN  IF RIsZero(pivot)
      THEN [s EXCEPT !.C[i] = Ci, !.pivot = pivot, !.B[i] = ri,
                     !.err = TRI_ZeroPivot, !.pc = "done"]
      ELSE [s EXCEPT !.C[i] = Ci, !.pivot = pivot, !.B[i] = ri,
                     !.i = i + 1,
                     !.pc = IF i + 1 < s.n THEN "forward" ELSE "back"]

\* lines 74-82: row i of the forward substitution
TRI_Forward(s) ==
  LET i     == s.i
      Ci    == RDiv(s.c[i - 1], s.pivot)
      pivot == RSub(s.b[i], RMul(s.a[i], Ci))
  IN  IF RIsZero(pivot)
      THEN [s EXCEPT !.C[i] = Ci, !.pivot = pivot,
                     !.err = TRI_ZeroPivot, !.pc = "done"]
      ELSE [s EXCEPT !.C[i] = Ci, !.pivot = pivot,
                     !.B[i] = RDiv(RSub(s.B[i], RMul(s.a[i], s.B[i - 1])), pivot),
                     !.i = i + 1,
                     !.pc = IF i + 1 < s.n THEN "forward" ELSE "back"]

\* the backsubstitution scaling by C[i] where the code scales by C[i+1]
RECURSIVE TRI_BackFromShifted(_, _, _)
TRI_BackFromShifted(r, C, i) ==
  IF i < 0 THEN r
  ELSE TRI_BackFromShifted(
         [r EXCEPT ![i] = RSub(r[i], RMul(C[IF i = 0 THEN 1 ELSE i], r[i + 1]))],
         C, i - 1)

\* line 85: r[i] -= C[i+1] * r[i+1] for i down to 0
RECURSIVE TRI_BackFrom(_, _, _)
TRI_BackFrom(r, C, i) ==
  IF i < 0 THEN r
  ELSE TRI_BackFrom([r EXCEPT ![i] = RSub(r[i], RMul(C[i + 1], r[i + 1]))],
                    C, i - 1)

\* lines 84-88: the backsubstitution and the two delete []
TRI_Back(s) ==
  [s EXCEPT !.B = TRI_BackFrom(s.B, s.C, s.n - 2),
            !.heap = "freed", !.pc = "done"]

(***************************************************************************)
(* MP_getDiag and MP_setDiag (MPdefs.tpp).  The matrix has l rows and m    *)
(* columns, the vector n elements.  mem is the memory the pointer p walks: *)
(* the l*m elements of A at 0..l*m-1 and, behind them, whatever other      *)
(* object the free store holds there.                                      *)
(***************************************************************************)
\* lines 161-168 and 197-204: the assertion that the diagonal exists
DG_AssertHolds(l, d) == IF d >= 0 THEN d < l ELSE IAbs(d) < l

\* lines 163/166 and 199/202: max, the number of elements to copy
DG_Max(l, m, n, d) == IF d >= 0 THEN MP_min(m - d, n) ELSE MP_min(l + d, n)

\* lines 167-169 and 203-205: the linear index p starts from
DG_Start(m, d) == IF d >= 0 THEN d ELSE (0 - d) * m

\* lines 170-171 and 206-207: how often the loop body runs (i < l, i < max)
DG_Count(l, m, n, d) ==
  IF DG_Max(l, m, n, d) <= 0 THEN 0 ELSE MP_min(l, DG_Max(l, m, n, d))

\* lines 170 and 206: where p points in pass i of the loop (p += m+1)
DG_Index(m, d, i) == DG_Start(m, d) + i * (m + 1)

\* the linear indices the loop dereferences
DG_Touched(l, m, n, d) ==
  { DG_Index(m, d, i) : i \in 0..(DG_Count(l, m, n, d) - 1) }

\* those of them that lie behind the last element of A
DG_Outside(l, m, n, d) == { k \in DG_Touched(l, m, n, d) : k >= l * m }

\* lines 169-174: the elements copied into u, then the trailing zeros
MP_getDiag(mem, l, m, n, d) ==
  [i \in 0..(n - 1) |->
     IF i < DG_Count(l, m, n, d) THEN mem[DG_Index(m, d, i)] ELSE R(0)]

\* the copy into the diagonal with p advanced by m instead of m+1
MP_setDiagDownColumn(u, mem, l, m, n, d) ==
  [k \in DOMAIN mem |->
     IF \E i \in 0..(DG_Count(l, m, n, d) - 1) : DG_Start(m, d) + i * m = k
     THEN u[CHOOSE i \in 0..(DG_Count(l, m, n, d) - 1) :
                 DG_Start(m, d) + i * m = k]
     ELSE mem[k]]

\* lines 205-209: the elements of u copied into the diagonal
MP_setDiag(u, mem, l, m, n, d) ==
  [k \in DOMAIN mem |->
     IF \E i \in 0..(DG_Count(l, m, n, d) - 1) : DG_Index(m, d, i) = k
     THEN u[CHOOSE i \in 0..(DG_Count(l, m, n, d) - 1) : DG_Index(m, d, i) = k]
     ELSE mem[k]]

(***************************************************************************)
(* MP_swapRows and MP_swapCols (MPdefs.tpp).  The matrix is what the       *)
(* functions see through A(i, k): a function of the pairs <<row, column>>. *)
(* The result is the matrix after the call and whether an assertion        *)
(* stopped the program.                                                    *)
(***************************************************************************)
\* MP_swap(a, b) on the elements at positions p and q of A
MP_swap(A, p, q) == [A EXCEPT ![p] = A[q], ![q] = A[p]]

\* line 331: the loop over the columns k, from column k on
RECURSIVE SR_Loop(_, _, _, _, _)
SR_Loop(A, cols, i, j, k) ==
  IF k >= cols THEN A
  ELSE SR_Loop(MP_swap(A, <<i, k>>, <<j, k>>), cols, i, j, k + 1)

\* line 358: the loop over the rows k, from row k on
RECURSIVE SC_Loop(_, _, _, _, _)
SC_Loop(A, rows, i, j, k) ==
  IF k >= rows THEN A
  ELSE SC_Loop(MP_swap(A, <<k, i>>, <<k, j>>), rows, i, j, k + 1)

\* the row exchange with a loop that copies row j over row i and row i,
\* already overwritten, back over row j
MP_swapRowsNoTemp(A, rows, cols, i, j) ==
  IF i = j THEN [A |-> A, pc |-> "returned"]
  ELSE IF ~(i >= 0 /\ i < rows) \/ ~(j >= 0 /\ j < rows)
  THEN [A |-> A, pc |-> "aborted"]
  ELSE [A |-> [p \in DOMAIN A |-> IF p[1] = i THEN A[<<j, p[2]>>] ELSE A[p]],
        pc |-> "returned"]

\* the row exchange whose first assertion reads i > 0
MP_swapRowsStrictLower(A, rows, cols, i, j) ==
  IF i = j THEN [A |-> A, pc |-> "returned"]
  ELSE IF ~(i > 0 /\ i < rows) \/ ~(j >= 0 /\ j < rows)
  THEN [A |-> A, pc |-> "aborted"]
  ELSE [A |-> SR_Loop(A, cols, i, j, 0), pc |-> "returned"]

\* lines 318-332
MP_swapRows(A, rows, cols, i, j) ==
  IF i = j THEN [A |-> A, pc |-> "returned"]
  ELSE IF ~(i >= 0 /\ i < rows) \/ ~(j >= 0 /\ j < rows)
  THEN [A |-> A, pc |-> "aborted"]
  ELSE [A |-> SR_Loop(A, cols, i, j, 0), pc |-> "returned"]

\* lines 345-359
MP_swapCols(A, rows, cols, i, j) ==
  IF i = j THEN [A |-> A, pc |-> "returned"]
  ELSE IF ~(i >= 0 /\ i < cols) \/ ~(j >= 0 /\ j < cols)
  THEN [A |-> A, pc |-> "aborted"]
  ELSE [A |-> SC_Loop(A, rows, i, j, 0), pc |-> "returned"]

(***************************************************************************)
(* Quaternion <-> rotation matrix (Quaternion.h).  A quaternion is the     *)
(* array (x, y, z, w) indexed 0..3; a matrix is what the functions see     *)
(* through R(i, j).  sqrt is exact: the checked inputs are those on which  *)
(* every square root taken is rational.                                    *)
(***************************************************************************)
\* the integer root of n >= 0, rounded down, by bisection of lo..hi
RECURSIVE ISqrtBetween(_, _, _)
ISqrtBetween(n, lo, hi) ==
  IF lo >= hi THEN lo
  ELSE LET mid == (lo + hi + 1) \div 2
       IN  IF mid * mid <= n THEN ISqrtBetween(n, mid, hi)
           ELSE ISqrtBetween(n, lo, mid - 1)

\* 46340 is the root of the largest integer the arithmetic here holds
ISqrt(n) == ISqrtBetween(n, 0, IF n < 46340 THEN n ELSE 46340)

\* sqrt on a double: NaN below zero, else the root, exact where it is
\* rational and otherwise rounded (here: down to a multiple of 1/d for the
\* argument n/d, which like the double's rounding never reaches 0 from a
\* positive argument)
RSqrt(a) ==
  IF a[2] = 0 \/ a[1] < 0 THEN NonFinite
  ELSE Norm(ISqrt(a[1] * a[2]), a[2])

\* Quaternion::norm2: the sum of the squares of the four components
Q_norm2(q) ==
  RAdd(RAdd(RMul(q[0], q[0]), RMul(q[1], q[1])),
       RAdd(RMul(q[2], q[2]), RMul(q[3], q[3])))

\* Quaternion::normalize: scales to unit norm; a norm below epsilon (on the
\* integer quaternions checked here: the norm 0) is an error that leaves
\* the components unmodified
Q_normalize(q) ==
  LET n == RSqrt(Q_norm2(q))
  IN  IF RIsZero(n) THEN [q |-> q, failed |-> TRUE]
      ELSE [q |-> [k \in 0..3 |-> RDiv(q[k], n)], failed |-> FALSE]

\* transpose(): element (i, j) of the result is element (j, i)
MatTranspose(A) == [p \in DOMAIN A |-> A[<<p[2], p[1]>>]]

\* 2*a*b as the code writes it
Twice(a, b) == RMul(RMul(R(2), a), b)

\* lines 205-226, on the quaternion q that normalize() left: the nine
\* rotation entries, and for an output of more than 3 rows and columns the
\* fourth row and column; every other element of the output Rout stays
Q2M_Write(q, Rout, rows, cols) ==
  LET x == q[0]
      y == q[1]
      z == q[2]
      w == q[3]
      ww == RMul(w, w)
      xx == RMul(x, x)
      yy == RMul(y, y)
      zz == RMul(z, z)
      R9 == [Rout EXCEPT
               ![<<0, 0>>] = RSub(RSub(RAdd(ww, xx), yy), zz),
               ![<<1, 0>>] = RAdd(Twice(x, y), Twice(w, z)),
               ![<<2, 0>>] = RSub(Twice(x, z), Twice(w, y)),
               ![<<0, 1>>] = RSub(Twice(x, y), Twice(w, z)),
               ![<<1, 1>>] = RSub(RAdd(RSub(ww, xx), yy), zz),
               ![<<2, 1>>] = RAdd(Twice(y, z), Twice(w, x)),
               ![<<0, 2>>] = RAdd(Twice(x, z), Twice(w, y)),
               ![<<1, 2>>] = RSub(Twice(y, z), Twice(w, x)),
               ![<<2, 2>>] = RAdd(RSub(RSub(ww, xx), yy), zz)]
  IN  IF rows > 3 /\ cols > 3
      THEN [R9 EXCEPT
              ![<<0, 3>>] = R(0), ![<<1, 3>>] = R(0), ![<<2, 3>>] = R(0),
              ![<<3, 0>>] = R(0), ![<<3, 1>>] = R(0), ![<<3, 2>>] = R(0),
              ![<<3, 3>>] = RAdd(RAdd(RAdd(ww, xx), yy), zz)]
      ELSE R9

\* lines 195-227: the results a call can end with.  normalize() failing on
\* a degenerate quaternion either ends the call there, R unwritten, or is
\* reported aside and the call goes on with the components as they are.
MP_quaternionToMatrix(r, Rout, rows, cols) ==
  LET nz == Q_normalize(r)
      on == [pc |-> "converted", q |-> nz.q,
             R |-> Q2M_Write(nz.q, Rout, rows, cols)]
  IN  IF nz.failed THEN {[pc |-> "failed", q |-> r, R |-> Rout], on} ELSE {on}

\* lines 153-156: max starts as rr and is replaced by each of xx, yy, zz
\* that is greater
M2Q_MaxOfThree(rr, xx, yy, zz) ==
  LET max1 == IF RLess(rr, xx) THEN xx ELSE rr
  IN  IF RLess(max1, yy) THEN yy ELSE max1

M2Q_Max(rr, xx, yy, zz) ==
  LET max1 == IF RLess(rr, xx) THEN xx ELSE rr
      max2 == IF RLess(max1, yy) THEN yy ELSE max1
  IN  IF RLess(max2, zz) THEN zz ELSE max2

\* lines 158, 164, 170, 176: the if / else if chain on the four bases
M2Q_BranchLastFirst(rr, xx, yy, zz, max) ==
  IF zz = max THEN "zz"
  ELSE IF yy = max THEN "yy"
  ELSE IF xx = max THEN "xx"
  ELSE "rr"

M2Q_Branch(rr, xx, yy, zz, max) ==
  IF rr = max THEN "rr"
  ELSE IF xx = max THEN "xx"
  ELSE IF yy = max THEN "yy"
  ELSE "zz"

\* lines 146-182: the bases, the branch taken, the argument arg given to
\* sqrt and its result div by which the branch divides, and the
\* quaternion, from the matrix Rt the code holds in its local R
M2Q_From(Rt) ==
  LET d0 == Rt[<<0, 0>>]
      d1 == Rt[<<1, 1>>]
      d2 == Rt[<<2, 2>>]
      xx == RSub(RSub(RAdd(R(1), d0), d1), d2)
      yy == RSub(RAdd(RSub(R(1), d0), d1), d2)
      zz == RAdd(RSub(RSub(R(1), d0), d1), d2)
      rr == RAdd(RAdd(RAdd(R(1), d0), d1), d2)
      max == M2Q_Max(rr, xx, yy, zz)
      branch == M2Q_Branch(rr, xx, yy, zz, max)
      r4 == RSqrt(RMul(rr, R(4)))
      x4 == RSqrt(RMul(xx, R(4)))
      y4 == RSqrt(RMul(yy, R(4)))
      z4 == RSqrt(RMul(zz, R(4)))
      bases == [rr |-> rr, xx |-> xx, yy |-> yy, zz |-> zz, max |-> max]
  IN  IF branch = "rr"
      THEN [branch |-> "rr", arg |-> RMul(rr, R(4)), div |-> r4,
            q |-> (0 :> RDiv(RSub(Rt[<<1, 2>>], Rt[<<2, 1>>]), r4))
               @@ (1 :> RDiv(RSub(Rt[<<2, 0>>], Rt[<<0, 2>>]), r4))
               @@ (2 :> RDiv(RSub(Rt[<<0, 1>>], Rt[<<1, 0>>]), r4))
               @@ (3 :> RDiv(r4, R(4)))] @@ bases
      ELSE IF branch = "xx"
      THEN [branch |-> "xx", arg |-> RMul(xx, R(4)), div |-> x4,
            q |-> (0 :> RDiv(x4, R(4)))
               @@ (1 :> RDiv(RAdd(Rt[<<0, 1>>], Rt[<<1, 0>>]), x4))
               @@ (2 :> RDiv(RAdd(Rt[<<0, 2>>], Rt[<<2, 0>>]), x4))
               @@ (3 :> RDiv(RSub(Rt[<<1, 2>>], Rt[<<2, 1>>]), x4))] @@ bases
      ELSE IF branch = "yy"
      THEN [branch |-> "yy", arg |-> RMul(yy, R(4)), div |-> y4,
            q |-> (0 :> RDiv(RAdd(Rt[<<0, 1>>], Rt[<<1, 0>>]), y4))
               @@ (1 :> RDiv(y4, R(4)))
               @@ (2 :> RDiv(RAdd(Rt[<<1, 2>>], Rt[<<2, 1>>]), y4))
               @@ (3 :> RDiv(RSub(Rt[<<2, 0>>], Rt[<<0, 2>>]), y4))] @@ bases
      ELSE [branch |-> "zz", arg |-> RMul(zz, R(4)), div |-> z4,
            q |-> (0 :> RDiv(RAdd(Rt[<<0, 2>>], Rt[<<2, 0>>]), z4))
               @@ (1 :> RDiv(RAdd(Rt[<<1, 2>>], Rt[<<2, 1>>]), z4))
               @@ (2 :> RDiv(z4, R(4)))
               @@ (3 :> RDiv(RSub(Rt[<<0, 1>>], Rt[<<1, 0>>]), z4))] @@ bases

\* the conversion reading A(i, j) where the code reads the transpose
MP_matrixToQuaternionNoTranspose(A) == M2Q_From(A)

\* lines 141-183
MP_matrixToQuaternion(A) == M2Q_From(MatTranspose(A))

(***************************************************************************)
(* MP_LUdcmp (MPlu.tpp), a wrapper of LAPACK's dgetrf_.  Matrices are flat *)
(* row-major arrays; the wrapper transposes into the column-major array    *)
(* dgetrf_ works on, where element (i, j) lies at i + j*LDA.               *)
(***************************************************************************)
\* transpose() of the flat row-major rows x cols matrix A: the flat
\* row-major cols x rows matrix whose element (j, i) is A(i, j)
FlatTranspose(A, rows, cols) ==
  [k \in 0..(rows * cols - 1) |-> A[(k % rows) * cols + (k \div rows)]]

\* idamax as dgetrf_ uses it: the first row i >= j of column j whose
\* absolute value is largest; best is the row found so far
RECURSIVE LA_idamax(_, _, _, _, _, _)
LA_idamax(a, M, LDA, j, i, best) ==
  IF i >= M THEN best
  ELSE LA_idamax(a, M, LDA, j, i + 1,
                 IF RLess(MP_abs(a[best + j * LDA]), MP_abs(a[i + j * LDA]))
                 THEN i ELSE best)

\* column j of dgetrf_: the pivot row goes to ipiv[j] (1-based); a nonzero
\* pivot is brought to the diagonal by a row interchange and the column
\* below it divided by it, a zero pivot sets INFO = j+1 if INFO is still 0;
\* then the trailing submatrix is updated
LA_dgetrfColumn(s, M, N, LDA, j) ==
  LET p  == LA_idamax(s.a, M, LDA, j, j, j)
      nz == ~RIsZero(s.a[p + j * LDA])
      a1 == IF nz /\ p # j
            THEN [k \in DOMAIN s.a |->
                    IF k % LDA = j THEN s.a[p + (k \div LDA) * LDA]
                    ELSE IF k % LDA = p THEN s.a[j + (k \div LDA) * LDA]
                    ELSE s.a[k]]
            ELSE s.a
      a2 == IF nz
            THEN [k \in DOMAIN a1 |->
                    IF k \div LDA = j /\ k % LDA > j
                    THEN RDiv(a1[k], a1[j + j * LDA]) ELSE a1[k]]
            ELSE a1
      a3 == [k \in DOMAIN a2 |->
               IF k \div LDA > j /\ k % LDA > j
               THEN RSub(a2[k], RMul(a2[(k % LDA) + j * LDA],
                                     a2[j + (k \div LDA) * LDA]))
               ELSE a2[k]]
  IN  [a |-> a3,
       ipiv |-> [s.ipiv EXCEPT ![j] = p + 1],
       info |-> IF ~nz /\ s.info = 0 THEN j + 1 ELSE s.info]

RECURSIVE LA_dgetrfFrom(_, _, _, _, _)
LA_dgetrfFrom(s, M, N, LDA, j) ==
  IF j >= MP_min(M, N) THEN s
  ELSE LA_dgetrfFrom(LA_dgetrfColumn(s, M, N, LDA, j), M, N, LDA, j + 1)

\* dgetrf_(&M, &N, a, &LDA, ipiv, &INFO): INFO < 0 for an illegal argument,
\* nothing written; else the factorization with partial pivoting
LA_dgetrf(M, N, a, LDA, ipiv) ==
  IF M < 0 THEN [a |-> a, ipiv |-> ipiv, info |-> 0 - 1]
  ELSE IF N < 0 THEN [a |-> a, ipiv |-> ipiv, info |-> 0 - 2]
  ELSE IF LDA < (IF M > 1 THEN M ELSE 1)
  THEN [a |-> a, ipiv |-> ipiv, info |-> 0 - 4]
  ELSE LA_dgetrfFrom([a |-> a, ipiv |-> ipiv, info |-> 0], M, N, LDA, 0)

LU_Illegal  == "dgetrf_: illegal value detected"
LU_Singular == "dgetrf_: singular matrix detected"

\* the parity loop comparing i with index[i], the 1-based entry taken for
\* a 0-based one
RECURSIVE LU_ParityZeroBased(_, _, _, _)
LU_ParityZeroBased(index, K, i, d) ==
  IF i >= K THEN d
  ELSE LU_ParityZeroBased(index, K, i + 1,
                          IF i # index[i] THEN RSub(R(0), d) ELSE d)

\* lines 93-97: the parity loop from pass i on
RECURSIVE LU_Parity(_, _, _, _)
LU_Parity(index, K, i, d) ==
  IF i >= K THEN d
  ELSE LU_Parity(index, K, i + 1,
                 IF i # index[i] - 1 THEN RSub(R(0), d) ELSE d)

\* the wrapper copying the factors back before it tests INFO
LU_BeginCopyBackFirst(A, rows, cols, index, d) ==
  LET f == LA_dgetrf(rows, cols, FlatTranspose(A, rows, cols), rows, index)
      s == [rows |-> rows, cols |-> cols, K |-> MP_min(rows, cols),
            A |-> FlatTranspose(f.a, cols, rows), AT |-> f.a,
            index |-> f.ipiv, INFO |-> f.info, d |-> d,
            err |-> "", pc |-> "factored"]
  IN  IF f.info < 0 THEN [s EXCEPT !.err = LU_Illegal, !.pc = "done"]
      ELSE IF f.info > 0 THEN [s EXCEPT !.err = LU_Singular, !.pc = "done"]
      ELSE s

\* lines 67-87: the transposition, the call of dgetrf_ and the test of
\* INFO.  A and d are the caller's arguments as the function has left them
\* so far, AT the local column-major copy.
LU_Begin(A, rows, cols, index, d) ==
  LET M   == rows
      N   == cols
      K   == MP_min(M, N)
      LDA == rows
      f   == LA_dgetrf(M, N, FlatTranspose(A, rows, cols), LDA, index)
      s   == [rows |-> rows, cols |-> cols, K |-> K, A |-> A, AT |-> f.a,
              index |-> f.ipiv, INFO |-> f.info, d |-> d,
              err |-> "", pc |-> "factored"]
  IN  IF f.info < 0 THEN [s EXCEPT !.err = LU_Illegal, !.pc = "done"]
      ELSE IF f.info > 0 THEN [s EXCEPT !.err = LU_Singular, !.pc = "done"]
      ELSE s

\* lines 89-97: A = AT.transpose() and the parity
LU_Finish(s) ==
  [s EXCEPT !.A = FlatTranspose(s.AT, s.cols, s.rows),
            !.d = LU_Parity(s.index, s.K, 0, R(1)),
            !.pc = "done"]

(***************************************************************************)
(* MP_matrixMultiply (MatrixN.tpp) and MP_lls (MPlls.tpp).  The function   *)
(* walks A, B and C through pointers: B and C are given as the memory they *)
(* start in, which for arguments too small includes what lies behind them. *)
(***************************************************************************)
\* lines 51-55: the sum of d1[i] * *d2 for the passes i, i+1, ... of the
\* inner loop, d1 pointing to element d1 of A and d2 to element d2 of B
RECURSIVE MM_Sum(_, _, _, _, _, _, _)
MM_Sum(A, B, c1, c2, d1, d2, i) ==
  IF i >= c1 THEN R(0)
  ELSE RAdd(RMul(A[d1 + i], B[d2]), MM_Sum(A, B, c1, c2, d1, d2 + c2, i + 1))

\* the indices of B the function reads and the indices of C it writes,
\* for A of r1 rows and c1 columns and B of c2 columns
MM_Read(c1, c2) == 0..(c1 * c2 - 1)
MM_Written(r1, c2) == 0..(r1 * c2 - 1)

\* the multiplication with d2 advanced by 1 instead of c2: the row of A
\* times a row of B
MP_matrixMultiplyAlongRow(A, B, C, r1, c1, c2) ==
  [k \in DOMAIN C |->
     IF k \in MM_Written(r1, c2)
     THEN MM_Sum(A, B, c1, 1, (k \div c2) * c1, k % c2, 0)
     ELSE C[k]]

\* lines 32-61: the memory of C after the call
MP_matrixMultiply(A, B, C, r1, c1, c2) ==
  [k \in DOMAIN C |->
     IF k \in MM_Written(r1, c2)
     THEN MM_Sum(A, B, c1, c2, (k \div c2) * c1, k % c2, 0)
     ELSE C[k]]

\* operator*(const MatrixN &, const MatrixN &): a dimension mismatch is an
\* error; else the rows(P) x cols(Q) product computed by MP_matrixMultiply
\* into a new matrix
MatrixN_times(P, prows, pcols, Q, qrows, qcols) ==
  IF pcols # qrows THEN [err |-> "DimensionMismatch", M |-> <<>>]
  ELSE [err |-> "",
        M |-> MP_matrixMultiply(P, Q, [k \in 0..(prows * qcols - 1) |-> R(0)],
                                prows, pcols, qcols)]

\* lines 39-46 of MPlls.tpp: the normal equations A = DT * D, MB = DT * B
\* for D of M rows and N columns and B of M rows and P columns
LLS_Begin(D, B, M, N, P) ==
  LET DT == FlatTranspose(D, M, N)
  IN  [M |-> M, N |-> N, P |-> P, D |-> D, B |-> B, DT |-> DT,
       A  |-> MatrixN_times(DT, N, M, D, M, N).M,
       MB |-> MatrixN_times(DT, N, M, B, M, P).M,
       X |-> <<>>, err |-> "", calls |-> 0, pc |-> "solving"]

\* line 47: MP_GaussJordan(A, MB, X)
LLS_Solve(s) ==
  LET g == MP_GaussJordan(s.A, s.MB, s.N, s.P)
  IN  [s EXCEPT !.A = g.A, !.X = g.X, !.err = g.err,
                !.calls = s.calls + 1, !.pc = "done"]

(***************************************************************************)
(* State.  input holds the arguments as the caller built them; gj and ge   *)
(* are the runs of the two Gauss solvers on those arguments, tri the run   *)
(* of MP_tridiagonal, dg the run of MP_getDiag / MP_setDiag, sw the call   *)
(* of MP_swapRows or MP_swapCols, qt the quaternion conversions, lu the    *)
(* run of MP_LUdcmp, svd the run of MP_svd, mm the call of                 *)
(* MP_matrixMultiply and lls the run of MP_lls.                            *)
(***************************************************************************)
VARIABLES input, gj, ge, tri, dg, sw, qt, lu, svd, mm, lls, rq, mw, gl

vars == <<input, gj, ge, tri, dg, sw, qt, lu, svd, mm, lls, rq, mw, gl>>

Idle == [pc |-> "idle"]

(***************************************************************************)
(* The systems the Gauss solvers are run on.  Up to dimension 2 every      *)
(* integer matrix with entries in -MaxVal..MaxVal, at dimension 3 every    *)
(* 0/1 matrix, above that the 0/1 Toeplitz matrices (entry (r,c) depends   *)
(* on r-c only), so that the set stays enumerable.  The right-hand-side    *)
(* block has 1 or MaxM columns; its column c is (c+1) times a 0/1 seed     *)
(* vector rotated by c rows.                                               *)
(***************************************************************************)
GaussMatrices(n) ==
  IF n <= 2 THEN [0..(n * n - 1) -> (0 - MaxVal)..MaxVal]
  ELSE IF n = 3 THEN [0..(n * n - 1) -> 0..1]
  ELSE { [k \in 0..(n * n - 1) |-> t[(k \div n) - (k % n) + n - 1]] :
         t \in [0..(2 * n - 2) -> 0..1] }

RhsBlock(b, n, m) ==
  [k \in 0..(n * m - 1) |-> R(((k % m) + 1) * b[((k \div m) + (k % m)) % n])]

GaussInputs(n, m) ==
  { [n |-> n, m |-> m,
     A |-> [k \in 0..(n * n - 1) |-> R(a[k])],
     B |-> RhsBlock(b, n, m)] :
    a \in GaussMatrices(n), b \in [0..(n - 1) -> 0..1] }

GaussInit ==
  /\ \E n \in 1..MaxN, m \in {1, MaxM} : input \in GaussInputs(n, m)
  /\ gj = Idle
  /\ ge = Idle
  /\ tri = Idle
  /\ dg = Idle
  /\ sw = Idle
  /\ qt = Idle
  /\ lu = Idle
  /\ svd = Idle
  /\ mm = Idle
  /\ lls = Idle
  /\ rq = Idle
  /\ mw = Idle
  /\ gl = Idle

CallGaussJordan ==
  /\ gj.pc = "idle"
  /\ gj' = GJ_Begin(input.A, input.B, input.n, input.m)
  /\ UNCHANGED <<input, ge, tri, dg, sw, qt, lu, svd, mm, lls, rq, mw, gl>>

GaussJordanIterate ==
  /\ gj.pc = "loop"
  /\ gj' = GJ_Iterate(gj)
  /\ UNCHANGED <<input, ge, tri, dg, sw, qt, lu, svd, mm, lls, rq, mw, gl>>

GaussJordanUnscramble ==
  /\ gj.pc = "unscramble"
  /\ gj' = GJ_Unscramble(gj)
  /\ UNCHANGED <<input, ge, tri, dg, sw, qt, lu, svd, mm, lls, rq, mw, gl>>

\* the caller runs the second solver on the same arguments once the first
\* has returned
CallGaussElimination ==
  /\ gj.pc = "done"
  /\ ge.pc = "idle"
  /\ ge' = GE_Begin(input.A, input.B, input.n, input.m)
  /\ UNCHANGED <<input, gj, tri, dg, sw, qt, lu, svd, mm, lls, rq, mw, gl>>

GaussEliminationColumn ==
  /\ ge.pc = "forward"
  /\ ge' = GE_Column(ge)
  /\ UNCHANGED <<input, gj, tri, dg, sw, qt, lu, svd, mm, lls, rq, mw, gl>>

GaussEliminationBackSubstitute ==
  /\ ge.pc = "backsub"
  /\ ge' = GE_BackSubstitute(ge)
  /\ UNCHANGED <<input, gj, tri, dg, sw, qt, lu, svd, mm, lls, rq, mw, gl>>

GaussNext ==
  \/ CallGaussJordan
  \/ GaussJordanIterate
  \/ GaussJordanUnscramble
  \/ CallGaussElimination
  \/ GaussEliminationColumn
  \/ GaussEliminationBackSubstitute

GaussSpec == GaussInit /\ [][GaussNext]_vars

(***************************************************************************)
(* What the Gauss solvers are checked against.                             *)
(***************************************************************************)
\* the product of the n x k matrix P and the k x m matrix Q, both flat
RECURSIVE DotFrom(_, _, _, _, _, _, _)
DotFrom(P, Q, k, m, row, col, j) ==
  IF j = k THEN R(0)
  ELSE RAdd(RMul(P[row * k + j], Q[j * m + col]),
            DotFrom(P, Q, k, m, row, col, j + 1))

MatMul(P, Q, n, k, m) ==
  [x \in 0..(n * m - 1) |-> DotFrom(P, Q, k, m, x \div m, x % m, 0)]

IdentityMatrix(n) ==
  [x \in 0..(n * n - 1) |-> IF x \div n = x % n THEN R(1) ELSE R(0)]

\* the determinant of a flat n x n matrix, by expansion along the first row
RECURSIVE Det(_, _)
RECURSIVE DetExpand(_, _, _)
Minor(M, n, c) ==
  [x \in 0..((n - 1) * (n - 1) - 1) |->
     LET row == (x \div (n - 1)) + 1
         col == IF x % (n - 1) < c THEN x % (n - 1) ELSE (x % (n - 1)) + 1
     IN  M[row * n + col]]
DetExpand(M, n, c) ==
  IF c = n THEN R(0)
  ELSE LET term == RMul(M[c], Det(Minor(M, n, c), n - 1))
       IN  RAdd(IF c % 2 = 0 THEN term ELSE RSub(R(0), term),
                DetExpand(M, n, c + 1))
Det(M, n) == IF n = 1 THEN M[0] ELSE DetExpand(M, n, 0)

Invertible(M, n) == ~RIsZero(Det(M, n))

AllFinite(M) == \A k \in DOMAIN M : IsFinite(M[k])

GJReturned == gj.pc = "done"
GEReturned == ge.pc = "done"
InputInvertible == Invertible(input.A, input.n)

\* C1: for every invertible A and every B, MP_GaussJordan returns with
\* A_original * X = B and with A overwritten by A' such that
\* A_original * A' = I, and writes no error.
GaussJordanSolvesAndInverts ==
  (GJReturned /\ InputInvertible) =>
     /\ gj.err = ""
     /\ MatMul(input.A, gj.X, input.n, input.n, input.m) = input.B
     /\ MatMul(input.A, gj.A, input.n, input.n, input.n)
          = IdentityMatrix(input.n)

\* a returned run on an invertible 3x3 system with two right-hand sides in
\* which at least two pivots lay off the diagonal
GaussJordanSolvedWitness ==
  /\ GJReturned /\ InputInvertible
  /\ input.n >= 3 /\ input.m = 2
  /\ Cardinality({i \in 0..(input.n - 1) :
                    gj.row_indx[i] # gj.col_indx[i]}) >= 2
  /\ gj.X # input.B

\* C2: on identical invertible inputs MP_GaussElimination and
\* MP_GaussJordan return the same solution matrix X.
GaussSolversAgree ==
  (GJReturned /\ GEReturned /\ InputInvertible) => ge.X = gj.X

\* both solvers have returned on an invertible system whose first diagonal
\* element is 0, so that elimination had to exchange rows
GaussSolversAgreeWitness ==
  /\ GJReturned /\ GEReturned /\ InputInvertible
  /\ input.n >= 3 /\ input.m = 2
  /\ RIsZero(input.A[0])
  /\ ge.X # input.B

\* C3: whenever MP_GaussJordan reports "Singular Matrix",
\* MP_GaussElimination reports it too and has divided by no zero pivot.
GaussEliminationSingularLikeGaussJordan ==
  (GJReturned /\ GEReturned /\ gj.err = GJ_Singular) =>
     (ge.err = GE_Singular /\ ~ge.divzero)

\* no unused row and column of the pivoting loop holds a nonzero element
NoCandidatePivot(s) ==
  \A row, col \in 0..(s.n - 1) :
     (s.pivotflg[row] = 0 /\ s.pivotflg[col] = 0) => RIsZero(s.A[row * s.n + col])

\* C4: when every candidate pivot of an iteration is zero (for n = 1: the
\* single element), MP_GaussJordan reports "Singular Matrix" and returns at
\* once with A and X as they are; no run ever computes 1/0; and every
\* singular A ends with the report.
GaussJordanReportsSingular ==
  /\ [](gj.pc # "idle" => (AllFinite(gj.A) /\ AllFinite(gj.X)))
  /\ []((GJReturned /\ ~InputInvertible) => gj.err = GJ_Singular)
  /\ [][(gj.pc = "loop" /\ NoCandidatePivot(gj)) =>
          (gj'.pc = "done" /\ gj'.err = GJ_Singular
           /\ gj'.A = gj.A /\ gj'.X = gj.X)]_vars
  /\ [][(gj.pc = "idle" /\ input.n = 1 /\ RIsZero(input.A[0])) =>
          (gj'.pc = "done" /\ gj'.err = GJ_Singular
           /\ gj'.A = input.A /\ gj'.X = input.B)]_vars

\* a singular system whose first pivot was found and whose later iteration
\* met only zeros
GaussJordanSingularWitness ==
  /\ GJReturned /\ gj.err = GJ_Singular
  /\ gj.i >= 1 /\ NoCandidatePivot(gj)
  /\ ~InputInvertible

\* the diagonal of the flat n x n matrix M multiplied out
RECURSIVE DiagProduct(_, _, _)
DiagProduct(M, n, i) ==
  IF i = n THEN R(1) ELSE RMul(M[i * n + i], DiagProduct(M, n, i + 1))

UpperTriangular(M, n) ==
  \A k \in DOMAIN M : (k \div n > k % n) => RIsZero(M[k])

\* C5 as stated: MP_GaussElimination has the contract of MP_GaussJordan,
\* X solves A_original * X = B and A is overwritten with the inverse.
GaussEliminationInvertsA ==
  (GEReturned /\ InputInvertible) =>
     /\ ge.err = ""
     /\ MatMul(input.A, ge.X, input.n, input.n, input.m) = input.B
     /\ MatMul(input.A, ge.A, input.n, input.n, input.n)
          = IdentityMatrix(input.n)

\* C5 amended: on an invertible A, MP_GaussElimination returns without
\* error or zero divisor and X solves A_original * X = B; A holds the
\* inverse only for n = 1, and for n >= 2 it is left as the upper
\* triangular matrix of the forward elimination, whose diagonal multiplies
\* out to plus or minus the determinant of A_original.
GaussEliminationSolves ==
  (GEReturned /\ InputInvertible) =>
     /\ ge.err = "" /\ ~ge.divzero
     /\ MatMul(input.A, ge.X, input.n, input.n, input.m) = input.B
     /\ input.n = 1 =>
          MatMul(input.A, ge.A, 1, 1, 1) = IdentityMatrix(1)
     /\ input.n >= 2 =>
          /\ UpperTriangular(ge.A, input.n)
          /\ MP_abs(DiagProduct(ge.A, input.n, 0))
               = MP_abs(Det(input.A, input.n))

\* elimination has returned on an invertible system of dimension 3 after
\* changing A, and what it left in A is not the inverse
GaussEliminationSolvesWitness ==
  /\ GEReturned /\ InputInvertible
  /\ input.n >= 3 /\ input.m = 2
  /\ ge.A # input.A
  /\ ge.X # input.B
  /\ MatMul(input.A, ge.A, input.n, input.n, input.n)
       # IdentityMatrix(input.n)

\* what a call of a Gauss solver hands back to its caller: the functions
\* return void, so it is the two arguments they write
CallerView(run) == <<run.A, run.X>>

\* C8: a failure is reported through the result of the call, so that the
\* caller can tell a failed call from a successful one by what it got back:
\* no failed call of MP_GaussJordan hands back what a successful call on
\* the same right-hand sides hands back.
FailureVisibleToCaller ==
  (GJReturned /\ gj.err # "") =>
     ~\E a \in GaussMatrices(input.n) :
        LET ok == MP_GaussJordan([k \in DOMAIN a |-> R(a[k])], input.B,
                                 input.n, input.m)
        IN  ok.err = "" /\ CallerView(ok) = CallerView(gj)

\* the indices not yet marked in pivotflg
GJ_Unused(s) == {k \in 0..(s.n - 1) : s.pivotflg[k] = 0}

GJSucceeded == gj.pc \in {"unscramble", "done"} /\ gj.err = "" /\ gj.n >= 2

\* C23 as stated: every iteration takes an element of largest magnitude
\* among the unused rows and columns, every index is marked once, and the
\* recorded pairs (row_indx[i], col_indx[i]) form a permutation: no row and
\* no column is recorded twice.
GaussJordanPairsFormPermutation ==
  GJSucceeded =>
     /\ \A k \in 0..(gj.n - 1) : gj.pivotflg[k] = 1
     /\ \A i, j \in 0..(gj.n - 1) :
          i # j => (/\ gj.col_indx[i] # gj.col_indx[j]
                    /\ gj.row_indx[i] # gj.row_indx[j])

\* C23, amended: every iteration of MP_GaussJordan (N >= 2) takes an
\* element of largest magnitude among the rows and columns whose index is
\* not yet marked, records its position and marks the index of its column;
\* after a successful run every index is marked exactly once and the
\* recorded columns are a permutation of 0..N-1.
GaussJordanPivotsLargestUnused ==
  /\ [][(gj.pc = "loop" /\ gj'.err = "") =>
          LET n == gj.n
              irow == gj'.irow
              icol == gj'.icol
          IN  /\ irow \in GJ_Unused(gj) /\ icol \in GJ_Unused(gj)
              /\ \A r, c \in GJ_Unused(gj) :
                   ~RLess(MP_abs(gj.A[irow * n + icol]),
                          MP_abs(gj.A[r * n + c]))
              /\ gj'.row_indx[gj.i] = irow /\ gj'.col_indx[gj.i] = icol
              /\ gj'.pivotflg = [gj.pivotflg EXCEPT ![icol] = 1]]_vars
  /\ [](GJSucceeded =>
          /\ \A k \in 0..(gj.n - 1) : gj.pivotflg[k] = 1
          /\ {gj.col_indx[i] : i \in 0..(gj.n - 1)} = 0..(gj.n - 1))

\* a successful 3x3 run in which a pivot lay off the diagonal and one row
\* position was recorded twice
GaussJordanPivotsWitness ==
  /\ GJSucceeded /\ gj.n = 3
  /\ \E i \in 0..2 : gj.row_indx[i] # gj.col_indx[i]
  /\ \E i, j \in 0..2 : i # j /\ gj.row_indx[i] = gj.row_indx[j]

\* the rows c..n-1 of column c of A whose magnitude no other of them exceeds
GE_LargestRows(A, n, c) ==
  {p \in c..(n - 1) :
     \A q \in c..(n - 1) : ~RLess(MP_abs(A[p * n + c]), MP_abs(A[q * n + c]))}

\* the least element of a nonempty set of row numbers
LeastOf(S) == CHOOSE p \in S : \A q \in S : p <= q

\* C24: at every elimination column c of MP_GaussElimination the pivot is
\* the entry of largest magnitude among rows c..N-1 of column c, the one in
\* the lowest-numbered row when magnitudes tie; when that row p differs
\* from c, rows p and c are exchanged in the coefficient matrix and in
\* every column of the right-hand sides before the elimination: row c ends
\* as the former row p, and position p holds the former row c reduced by
\* the pivot row.
GaussEliminationPivotsPartially ==
  [][(ge.pc = "forward" /\ ge'.err = "") =>
       LET n == ge.n
           m == ge.m
           c == ge.col
           p == LeastOf(GE_LargestRows(ge.A, n, c))
           r == RDiv(ge.A[c * n + c], ge.A[p * n + c])
       IN  /\ \A j \in 0..(n - 1) : ge'.A[c * n + j] = ge.A[p * n + j]
           /\ \A i \in 0..(m - 1) : ge'.X[c * m + i] = ge.X[p * m + i]
           /\ p # c =>
                /\ RIsZero(ge'.A[p * n + c])
                /\ \A j \in (c + 1)..(n - 1) :
                     ge'.A[p * n + j] =
                        RSub(ge.A[c * n + j], RMul(ge.A[p * n + j], r))
                /\ \A i \in 0..(m - 1) :
                     ge'.X[p * m + i] =
                        RSub(ge.X[c * m + i], RMul(ge.X[p * m + i], r))]_vars

\* the first column of a 3x3 system with two right-hand sides has been
\* eliminated, rows 1 and 2 tied for the largest magnitude and row 0 was
\* smaller: row 1 was exchanged with row 0
GaussEliminationPivotWitness ==
  /\ ge.pc \in {"forward", "backsub"} /\ ge.col = 1
  /\ input.n = 3 /\ input.m = 2
  /\ MP_abs(input.A[3]) = MP_abs(input.A[6])
  /\ RLess(MP_abs(input.A[0]), MP_abs(input.A[3]))
  /\ \A j \in 0..2 : ge.A[j] = input.A[3 + j]

(***************************************************************************)
(* The tridiagonal systems MP_tridiagonal is run on.  Up to 3 rows: every  *)
(* band matrix with sub- and super-diagonal entries in 0..1 and diagonal   *)
(* entries in 0..TriMaxVal; above that those with constant bands.  The     *)
(* right-hand side is p + q*i for p, q in 0..1.                            *)
(***************************************************************************)
TriBands(n) ==
  IF n <= 3
  THEN { [k \in 0..(3 * n - 1) |->
            IF k % 3 = 0 THEN sub[k \div 3]
            ELSE IF k % 3 = 1 THEN diag[k \div 3] ELSE sup[k \div 3]] :
         sub \in [0..(n - 1) -> 0..1],
         diag \in [0..(n - 1) -> 0..TriMaxVal],
         sup \in [0..(n - 1) -> 0..1] }
  ELSE { [k \in 0..(3 * n - 1) |->
            IF k % 3 = 0 THEN sub ELSE IF k % 3 = 1 THEN diag ELSE sup] :
         sub \in 0..1, diag \in 0..TriMaxVal, sup \in 0..1 }

TriInputs(n) ==
  { [n |-> n,
     A |-> [k \in 0..(3 * n - 1) |-> R(bands[k])],
     B |-> [k \in 0..(n - 1) |-> R(p + q * k)]] :
    bands \in TriBands(n), p \in 0..1, q \in 0..1 }

TriInit ==
  /\ \E n \in 1..TriMaxN : input \in TriInputs(n)
  /\ gj = Idle
  /\ ge = Idle
  /\ tri = Idle
  /\ dg = Idle
  /\ sw = Idle
  /\ qt = Idle
  /\ lu = Idle
  /\ svd = Idle
  /\ mm = Idle
  /\ lls = Idle
  /\ rq = Idle
  /\ mw = Idle
  /\ gl = Idle

CallTridiagonal ==
  /\ tri.pc = "idle"
  /\ tri' = TRI_Begin(input.A, input.B, input.n)
  /\ UNCHANGED <<input, gj, ge, dg, sw, qt, lu, svd, mm, lls, rq, mw, gl>>

TridiagonalForward ==
  /\ tri.pc = "forward"
  /\ tri' = TRI_Forward(tri)
  /\ UNCHANGED <<input, gj, ge, dg, sw, qt, lu, svd, mm, lls, rq, mw, gl>>

TridiagonalBack ==
  /\ tri.pc = "back"
  /\ tri' = TRI_Back(tri)
  /\ UNCHANGED <<input, gj, ge, dg, sw, qt, lu, svd, mm, lls, rq, mw, gl>>

TriNext ==
  \/ CallTridiagonal
  \/ TridiagonalForward
  \/ TridiagonalBack

TriSpec == TriInit /\ [][TriNext]_vars

TriReturned == tri.pc = "done"

\* row i of the tridiagonal system of A applied to the vector x
TriRow(A, x, n, i) ==
  RAdd(RAdd(IF i > 0 THEN RMul(A[3 * i], x[i - 1]) ELSE R(0),
            RMul(A[3 * i + 1], x[i])),
       IF i < n - 1 THEN RMul(A[3 * i + 2], x[i + 1]) ELSE R(0))

\* the system of the spec: sub = [0,1,1], diag = [2,2,2], super = [1,1,0],
\* right-hand side [1,2,3]
TriExample ==
  [n |-> 3,
   A |-> [k \in 0..8 |-> R(<<0, 2, 1, 1, 2, 1, 1, 2, 0>>[k + 1])],
   B |-> [k \in 0..2 |-> R(k + 1)]]

\* C6: when the forward sweep meets no zero pivot, MP_tridiagonal leaves in
\* B the vector x with sub[i]*x[i-1] + diag[i]*x[i] + super[i]*x[i+1] =
\* B_original[i] in every row i; for the system of the spec x is
\* (1/2, 0, 3/2).
TridiagonalSolves ==
  (TriReturned /\ tri.err = "") =>
     /\ \A i \in 0..(input.n - 1) :
          TriRow(input.A, tri.B, input.n, i) = input.B[i]
     /\ input = TriExample =>
          tri.B = (0 :> <<1, 2>>) @@ (1 :> <<0, 1>>) @@ (2 :> <<3, 2>>)

\* the system of the spec has been solved
TridiagonalSolvesWitness ==
  TriReturned /\ tri.err = "" /\ input = TriExample /\ tri.B # input.B

\* the pivot that row s.i of the forward substitution computes
TRI_NextPivot(s) ==
  RSub(s.b[s.i], RMul(s.a[s.i], RDiv(s.c[s.i - 1], s.pivot)))

\* C7: a zero pivot (the first diagonal entry, or diag[i] - sub[i]*C[i] at
\* a later row i) makes MP_tridiagonal write its error and return without
\* writing the right-hand side or the band matrix again: the entries of B
\* at and beyond the failing row hold their input values.
TridiagonalStopsAtZeroPivot ==
  /\ []((TriReturned /\ tri.err # "") =>
          /\ tri.A = input.A
          /\ \A j \in tri.i..(input.n - 1) : tri.B[j] = input.B[j])
  /\ [][(tri.pc = "idle" /\ RIsZero(input.A[1])) =>
          (tri'.pc = "done" /\ tri'.err = TRI_Trivial
           /\ tri'.B = input.B /\ tri'.A = input.A)]_vars
  /\ [][(tri.pc = "forward" /\ RIsZero(TRI_NextPivot(tri))) =>
          (tri'.pc = "done" /\ tri'.err = TRI_ZeroPivot
           /\ tri'.B = tri.B /\ tri'.A = tri.A)]_vars

\* a zero pivot met at the last of three rows, after the rows before it
\* were rewritten
TridiagonalZeroPivotWitness ==
  /\ TriReturned /\ tri.err = TRI_ZeroPivot
  /\ tri.i = 2
  /\ tri.B[0] # input.B[0]
  /\ ~RIsZero(input.B[2])

\* C25: every heap buffer the function allocated (here the arrays C and a
\* of MP_tridiagonal) is released on every return path, the zero-pivot
\* returns included.
TridiagonalReleasesBuffers ==
  TriReturned => tri.heap = "freed"

(***************************************************************************)
(* The calls of MP_getDiag and MP_setDiag: every shape up to DiagMaxDim    *)
(* rows and columns, every offset d from -l to the larger dimension (so    *)
(* that offsets the assertions refuse are among them), every vector size   *)
(* up to DiagMaxLen.  A holds k+1 at linear index k, or k % 2; the vector  *)
(* holds 5s; the memory behind A holds 0 or 9 in each cell.                *)
(***************************************************************************)
DiagCalls(l, m, n, d) ==
  { [l |-> l, m |-> m, n |-> n, d |-> d,
     A |-> [k \in 0..(l * m - 1) |-> R(IF pat = 0 THEN k + 1 ELSE k % 2)],
     u |-> [i \in 0..(n - 1) |-> R(5)],
     behind |-> [k \in DG_Outside(l, m, n, d) |-> R(g[k])]] :
    pat \in 0..1, g \in [DG_Outside(l, m, n, d) -> {0, 9}] }

DiagInit ==
  /\ \E l \in 1..DiagMaxDim, m \in 1..DiagMaxDim, n \in 1..DiagMaxLen :
        \E d \in (0 - l)..(IF l > m THEN l ELSE m) :
           input \in DiagCalls(l, m, n, d)
  /\ gj = Idle
  /\ ge = Idle
  /\ tri = Idle
  /\ dg = Idle
  /\ sw = Idle
  /\ qt = Idle
  /\ lu = Idle
  /\ svd = Idle
  /\ mm = Idle
  /\ lls = Idle
  /\ rq = Idle
  /\ mw = Idle
  /\ gl = Idle

\* MP_getDiag(A, d, u).  A failed assertion aborts the program.  A read
\* behind A is undefined: it faults, or it yields what the memory there
\* holds.
CallGetDiag ==
  /\ dg.pc = "idle"
  /\ LET mem == input.A @@ input.behind
     IN  \/ /\ ~DG_AssertHolds(input.l, input.d)
            /\ dg' = [pc |-> "aborted", mem |-> mem, u |-> input.u]
         \/ /\ DG_AssertHolds(input.l, input.d)
            /\ dg' = [pc |-> "got", mem |-> mem,
                       u |-> MP_getDiag(mem, input.l, input.m, input.n, input.d)]
         \/ /\ DG_AssertHolds(input.l, input.d)
            /\ DG_Outside(input.l, input.m, input.n, input.d) # {}
            /\ dg' = [pc |-> "fault", mem |-> mem, u |-> input.u]
  /\ UNCHANGED <<input, gj, ge, tri, sw, qt, lu, svd, mm, lls, rq, mw, gl>>

\* MP_setDiag(u, A, d) with the vector MP_getDiag filled.  A write behind A
\* is undefined: it faults, or it lands in the memory there.
CallSetDiag ==
  /\ dg.pc = "got"
  /\ \/ dg' = [dg EXCEPT !.pc = "set",
                          !.mem = MP_setDiag(dg.u, dg.mem, input.l, input.m,
                                             input.n, input.d)]
     \/ /\ DG_Outside(input.l, input.m, input.n, input.d) # {}
        /\ dg' = [dg EXCEPT !.pc = "fault"]
  /\ UNCHANGED <<input, gj, ge, tri, sw, qt, lu, svd, mm, lls, rq, mw, gl>>

\* MP_setDiag(u, A, d) with the vector the caller built, on A as the caller
\* built it.  A failed assertion aborts the program; a write behind A
\* faults, or lands in the memory there.
CallSetDiagAlone ==
  /\ dg.pc = "idle"
  /\ LET mem == input.A @@ input.behind
     IN  \/ /\ ~DG_AssertHolds(input.l, input.d)
            /\ dg' = [pc |-> "aborted", mem |-> mem, u |-> input.u]
         \/ /\ DG_AssertHolds(input.l, input.d)
            /\ dg' = [pc |-> "put", u |-> input.u,
                       mem |-> MP_setDiag(input.u, mem, input.l, input.m,
                                          input.n, input.d)]
         \/ /\ DG_AssertHolds(input.l, input.d)
            /\ DG_Outside(input.l, input.m, input.n, input.d) # {}
            /\ dg' = [pc |-> "fault", mem |-> mem, u |-> input.u]
  /\ UNCHANGED <<input, gj, ge, tri, sw, qt, lu, svd, mm, lls, rq, mw, gl>>

DiagNext ==
  \/ CallGetDiag
  \/ CallSetDiag
  \/ CallSetDiagAlone

DiagSpec == DiagInit /\ [][DiagNext]_vars

\* the number of elements of the diagonal with offset d of an l x m matrix
DiagLength(l, m, d) ==
  LET len == IF d >= 0 THEN MP_min(l, m - d) ELSE MP_min(l + d, m)
  IN  IF len < 0 THEN 0 ELSE len

\* the linear index of the i-th element of that diagonal: A(i, i+d) for
\* d >= 0 and A(i+|d|, i) for d < 0
DiagElement(m, d, i) ==
  IF d >= 0 THEN i * m + (i + d) ELSE (i - d) * m + i

GetDiagStoresDiagonal ==
  dg.pc = "got" =>
     \A i \in 0..(input.n - 1) :
        dg.u[i] = IF i < DiagLength(input.l, input.m, input.d)
                  THEN input.A[DiagElement(input.m, input.d, i)]
                  ELSE R(0)

\* C11: MP_setDiag writes u[i] into the i-th element of diagonal d for
\* every i below both the diagonal's length and the size of u, and leaves
\* every other element of A as it was.
SetDiagWritesOnlyDiagonal ==
  dg.pc = "put" =>
     \A k \in 0..(input.l * input.m - 1) :
        LET hit == { i \in 0..(MP_min(DiagLength(input.l, input.m, input.d),
                                      input.n) - 1) :
                       DiagElement(input.m, input.d, i) = k }
        IN  dg.mem[k] = IF hit # {} THEN input.u[CHOOSE i \in hit : TRUE]
                        ELSE input.A[k]

\* C26: for every shape, every offset the assertions accept and every
\* vector length, MP_getDiag and MP_setDiag touch only elements of A, each
\* of them on diagonal d (column - row = d), and no access faults.
DiagTouchesOnlyDiagonal ==
  dg.pc \in {"got", "put", "set", "fault"} =>
     /\ dg.pc # "fault"
     /\ \A k \in DG_Touched(input.l, input.m, input.n, input.d) :
          /\ k < input.l * input.m
          /\ (k % input.m) - (k \div input.m) = input.d

(***************************************************************************)
(* The calls of MP_swapRows and MP_swapCols: every shape up to SwapMaxDim  *)
(* rows and columns, every pair of indices from -1 to SwapMaxDim (so that  *)
(* indices below and above the valid range are among them).  A holds       *)
(* distinct values, or the sum of the two indices.                         *)
(***************************************************************************)
SwapCalls(rows, cols) ==
  { [rows |-> rows, cols |-> cols, i |-> i, j |-> j,
     A |-> [p \in (0..(rows - 1)) \X (0..(cols - 1)) |->
              R(IF pat = 0 THEN p[1] * cols + p[2] + 1 ELSE p[1] + p[2])]] :
    i \in (0 - 1)..SwapMaxDim, j \in (0 - 1)..SwapMaxDim, pat \in 0..1 }

SwapInit ==
  /\ \E rows \in 1..SwapMaxDim, cols \in 1..SwapMaxDim :
        input \in SwapCalls(rows, cols)
  /\ gj = Idle
  /\ ge = Idle
  /\ tri = Idle
  /\ dg = Idle
  /\ sw = Idle
  /\ qt = Idle
  /\ lu = Idle
  /\ svd = Idle
  /\ mm = Idle
  /\ lls = Idle
  /\ rq = Idle
  /\ mw = Idle
  /\ gl = Idle

CallSwapRows ==
  /\ sw.pc = "idle"
  /\ sw' = [op |-> "rows"] @@
           MP_swapRows(input.A, input.rows, input.cols, input.i, input.j)
  /\ UNCHANGED <<input, gj, ge, tri, dg, qt, lu, svd, mm, lls, rq, mw, gl>>

CallSwapCols ==
  /\ sw.pc = "idle"
  /\ sw' = [op |-> "cols"] @@
           MP_swapCols(input.A, input.rows, input.cols, input.i, input.j)
  /\ UNCHANGED <<input, gj, ge, tri, dg, qt, lu, svd, mm, lls, rq, mw, gl>>

SwapNext ==
  \/ CallSwapRows
  \/ CallSwapCols

SwapSpec == SwapInit /\ [][SwapNext]_vars

\* the number of rows for MP_swapRows, of columns for MP_swapCols
SwapRange == IF sw.op = "rows" THEN input.rows ELSE input.cols

SwapIndexValid(i) == i >= 0 /\ i < SwapRange

\* the element of the argument that element p of the result must hold
\* when lines i and j are exchanged
SwapSource(p) ==
  LET line == IF sw.op = "rows" THEN p[1] ELSE p[2]
      from == IF line = input.i THEN input.j
              ELSE IF line = input.j THEN input.i ELSE line
  IN  IF sw.op = "rows" THEN <<from, p[2]>> ELSE <<p[1], from>>

\* C12: MP_swapRows with valid i # j exchanges rows i and j element by
\* element and leaves every other element alone, MP_swapCols does so for
\* columns, and with i = j either leaves A unchanged.
SwapExchangesLines ==
  /\ (sw.pc = "returned" /\ input.i = input.j) => sw.A = input.A
  /\ (sw.pc # "idle" /\ input.i # input.j
      /\ SwapIndexValid(input.i) /\ SwapIndexValid(input.j)) =>
        /\ sw.pc = "returned"
        /\ \A p \in DOMAIN input.A : sw.A[p] = input.A[SwapSource(p)]

\* two different rows of a matrix with three columns have been exchanged
SwapExchangesLinesWitness ==
  /\ sw.pc = "returned" /\ sw.op = "rows"
  /\ input.i # input.j /\ input.cols >= 3
  /\ sw.A # input.A

\* C13 as stated: every call with i or j outside the valid range trips an
\* assertion, whatever the relation between i and j.
SwapAssertsEveryInvalidIndex ==
  (sw.pc # "idle" /\ (~SwapIndexValid(input.i) \/ ~SwapIndexValid(input.j)))
     => sw.pc = "aborted"

\* C13 amended: a call with i # j trips an assertion exactly when i or j
\* lies outside the valid range; a call with i = j returns without testing
\* the indices.
SwapAssertsInvalidDistinct ==
  sw.pc # "idle" =>
     /\ input.i # input.j =>
          (sw.pc = "aborted" <=>
             (~SwapIndexValid(input.i) \/ ~SwapIndexValid(input.j)))
     /\ input.i = input.j => sw.pc = "returned"
     /\ sw.pc = "aborted" => sw.A = input.A

\* MP_swapRows stopped at the assertion on j, i being a valid row
SwapAssertsWitness ==
  /\ sw.pc = "aborted" /\ sw.op = "rows"
  /\ SwapIndexValid(input.i) /\ input.j = input.rows

(***************************************************************************)
(* The quaternion conversions.  The quaternions are the integer            *)
(* quaternions with components in -QuatMaxVal..QuatMaxVal whose norm is an *)
(* integer: unit ones, non-unit ones and the zero quaternion.  The output  *)
(* R of MP_quaternionToMatrix has 3 or 4 rows and 3 or 4 columns and holds *)
(* 7 everywhere before the call.  The matrix A given to                    *)
(* MP_matrixToQuaternion is the rotation about the quaternion's axis (the  *)
(* identity for the zero quaternion), 3x3 or 4x4.                          *)
(***************************************************************************)
IsSquare(n) == \E k \in 0..n : k * k = n

QuatComponents ==
  { c \in [0..3 -> (0 - QuatMaxVal)..QuatMaxVal] :
      IsSquare(c[0] * c[0] + c[1] * c[1] + c[2] * c[2] + c[3] * c[3]) }

\* the rotation matrix of the unit quaternion u by the Euler-Rodrigues
\* formula (w^2 - v.v) I + 2 v v^T + 2 w [v]x, extended to dim x dim by the
\* identity
RotationOf(u, dim) ==
  LET w == u[3]
      vv == RAdd(RAdd(RMul(u[0], u[0]), RMul(u[1], u[1])), RMul(u[2], u[2]))
      cross == [p \in (0..2) \X (0..2) |->
                  IF p[1] = p[2] THEN R(0)
                  ELSE IF (p[1] + 1) % 3 = p[2]
                  THEN RSub(R(0), u[3 - p[1] - p[2]])
                  ELSE u[3 - p[1] - p[2]]]
  IN  [p \in (0..(dim - 1)) \X (0..(dim - 1)) |->
         IF p[1] > 2 \/ p[2] > 2
         THEN (IF p[1] = p[2] THEN R(1) ELSE R(0))
         ELSE RAdd(RAdd(IF p[1] = p[2] THEN RSub(RMul(w, w), vv) ELSE R(0),
                        Twice(u[p[1]], u[p[2]])),
                   Twice(w, cross[p]))]

QuatCalls(rows, cols, dim) ==
  { [q |-> [k \in 0..3 |-> R(c[k])],
     rows |-> rows, cols |-> cols, dim |-> dim,
     R0 |-> [p \in (0..(rows - 1)) \X (0..(cols - 1)) |-> R(7)],
     A |-> LET nz == Q_normalize([k \in 0..3 |-> R(c[k])])
           IN  RotationOf(IF nz.failed
                          THEN [k \in 0..3 |-> R(IF k = 3 THEN 1 ELSE 0)]
                          ELSE nz.q, dim)] :
    c \in QuatComponents }

\* the determinant of the 3x3 block of A
Det3(A) ==
  RAdd(RSub(RMul(A[<<0, 0>>], RSub(RMul(A[<<1, 1>>], A[<<2, 2>>]),
                                   RMul(A[<<1, 2>>], A[<<2, 1>>]))),
            RMul(A[<<0, 1>>], RSub(RMul(A[<<1, 0>>], A[<<2, 2>>]),
                                   RMul(A[<<1, 2>>], A[<<2, 0>>])))),
       RMul(A[<<0, 2>>], RSub(RMul(A[<<1, 0>>], A[<<2, 1>>]),
                              RMul(A[<<1, 1>>], A[<<2, 0>>]))))

\* A is a rotation: its 3x3 block times its transpose is the identity and
\* its determinant is 1 (a reflection is orthogonal too, but no rotation)
IsRotation(A) ==
  /\ \A i, j \in 0..2 :
       RAdd(RAdd(RMul(A[<<i, 0>>], A[<<j, 0>>]),
                 RMul(A[<<i, 1>>], A[<<j, 1>>])),
            RMul(A[<<i, 2>>], A[<<j, 2>>])) = R(IF i = j THEN 1 ELSE 0)
  /\ Det3(A) = R(1)

\* the 3x3 matrices, rotations or not, with every diagonal over
\* -QuatMaxVal..QuatMaxVal and the off-diagonal part either zero,
\* symmetric or without symmetry
QuatOffDiagonals ==
  { [p \in (0..2) \X (0..2) |-> 0],
    [p \in (0..2) \X (0..2) |-> IF p[1] = p[2] THEN 0 ELSE 1],
    [p \in (0..2) \X (0..2) |->
        IF p[1] = p[2] THEN 0 ELSE IF p[1] < p[2] THEN p[1] + p[2] ELSE -1] }

QuatGeneralCalls ==
  { [q |-> [k \in 0..3 |-> R(IF k = 3 THEN 1 ELSE 0)],
     rows |-> 3, cols |-> 3, dim |-> 3,
     R0 |-> [p \in (0..2) \X (0..2) |-> R(7)],
     A |-> [p \in (0..2) \X (0..2) |->
              R(IF p[1] = p[2] THEN d[p[1]] ELSE off[p])]] :
    d \in [0..2 -> (0 - QuatMaxVal)..QuatMaxVal], off \in QuatOffDiagonals }

QuatInit ==
  /\ \/ \E rows \in 3..4, cols \in 3..4, dim \in 3..4 :
           input \in QuatCalls(rows, cols, dim)
     \/ input \in QuatGeneralCalls
  /\ gj = Idle
  /\ ge = Idle
  /\ tri = Idle
  /\ dg = Idle
  /\ sw = Idle
  /\ qt = Idle
  /\ lu = Idle
  /\ svd = Idle
  /\ mm = Idle
  /\ lls = Idle
  /\ rq = Idle
  /\ mw = Idle
  /\ gl = Idle

\* MP_quaternionToMatrix(q, R) on the caller's quaternion
CallQuaternionToMatrix ==
  /\ qt.pc = "idle"
  /\ qt' \in MP_quaternionToMatrix(input.q, input.R0, input.rows, input.cols)
  /\ UNCHANGED <<input, gj, ge, tri, dg, sw, lu, svd, mm, lls, rq, mw, gl>>

\* MP_matrixToQuaternion(A, q) on the caller's matrix
CallMatrixToQuaternion ==
  /\ qt.pc = "idle"
  /\ qt' = [pc |-> "quat"] @@ MP_matrixToQuaternion(input.A)
  /\ UNCHANGED <<input, gj, ge, tri, dg, sw, lu, svd, mm, lls, rq, mw, gl>>

\* MP_quaternionToMatrix on the quaternion MP_matrixToQuaternion produced,
\* into a matrix of the shape of A; the caller converts back what it got
\* from a rotation (the quaternion of another matrix has no matrix to
\* return to)
CallQuaternionToMatrixBack ==
  /\ qt.pc = "quat"
  /\ IsRotation(input.A)
  /\ \E res \in MP_quaternionToMatrix(
                   qt.q,
                   [p \in DOMAIN input.A |-> R(7)], input.dim, input.dim) :
        qt' = [pc |-> IF res.pc = "converted" THEN "back" ELSE "backfailed",
               branch |-> qt.branch, q |-> res.q, R |-> res.R]
  /\ UNCHANGED <<input, gj, ge, tri, dg, sw, lu, svd, mm, lls, rq, mw, gl>>

QuatNext ==
  \/ CallQuaternionToMatrix
  \/ CallMatrixToQuaternion
  \/ CallQuaternionToMatrixBack

QuatSpec == QuatInit /\ [][QuatNext]_vars

\* C14: whatever quaternion MP_quaternionToMatrix is given, a 4x4 output
\* has (0,0,0,1) as its last row and its last column, and in any other
\* output only the nine rotation entries are written.
QuaternionMatrixHomogeneous ==
  qt.pc = "converted" =>
     /\ (input.rows = 4 /\ input.cols = 4) =>
          \A k \in 0..3 :
             /\ qt.R[<<3, k>>] = R(IF k = 3 THEN 1 ELSE 0)
             /\ qt.R[<<k, 3>>] = R(IF k = 3 THEN 1 ELSE 0)
     /\ ~(input.rows = 4 /\ input.cols = 4) =>
          \A p \in DOMAIN input.R0 :
             (p[1] > 2 \/ p[2] > 2) => qt.R[p] = input.R0[p]

\* C15: for a rotation matrix A, MP_quaternionToMatrix applied to the
\* quaternion MP_matrixToQuaternion(A) produced returns A.
QuaternionRoundTrip ==
  (qt.pc \in {"back", "backfailed"} /\ IsRotation(input.A)) =>
     (qt.pc = "back" /\ qt.R = input.A)

\* the round trip of a rotation that is not symmetric (its angle is not
\* 180 degrees), converted by the branch of the largest y component
QuaternionRoundTripWitness ==
  /\ qt.pc = "back" /\ IsRotation(input.A)
  /\ qt.branch = "yy"
  /\ input.A[<<0, 2>>] # input.A[<<2, 0>>]
  /\ input.dim = 4

\* the four bases as the claim writes them, from the diagonal of the
\* caller's matrix
QuatBases ==
  LET d0 == input.A[<<0, 0>>]
      d1 == input.A[<<1, 1>>]
      d2 == input.A[<<2, 2>>]
  IN  <<RAdd(RAdd(RAdd(R(1), d0), d1), d2),
        RSub(RSub(RAdd(R(1), d0), d1), d2),
        RSub(RAdd(RSub(R(1), d0), d1), d2),
        RAdd(RSub(RSub(R(1), d0), d1), d2)>>

QuatBranchNames == <<"rr", "xx", "yy", "zz">>

\* C21: MP_matrixToQuaternion works with rr = 1+d0+d1+d2, xx = 1+d0-d1-d2,
\* yy = 1-d0+d1-d2, zz = 1-d0-d1+d2 and takes the branch of the largest of
\* them, the first in the order rr, xx, yy, zz among equal largest ones.
MatrixToQuaternionTakesLargest ==
  qt.pc = "quat" =>
     /\ <<qt.rr, qt.xx, qt.yy, qt.zz>> = QuatBases
     /\ \E k \in 1..4 :
          /\ qt.branch = QuatBranchNames[k]
          /\ qt.max = QuatBases[k]
          /\ \A j \in 1..4 : ~RLess(QuatBases[k], QuatBases[j])
          /\ \A j \in 1..(k - 1) : QuatBases[j] # QuatBases[k]

\* xx and yy are both the largest and rr is below them: branch xx is taken
MatrixToQuaternionTieWitness ==
  /\ qt.pc = "quat"
  /\ qt.branch = "xx"
  /\ qt.xx = qt.yy
  /\ RLess(qt.rr, qt.xx)

\* C27: for every matrix, rotation or not, the four bases sum to 4 and the
\* selected one is at least 1, so the taken branch takes the square root of
\* a number that is not negative and divides by a root that is not zero.
MatrixToQuaternionRootIsSafe ==
  qt.pc = "quat" =>
     /\ RAdd(RAdd(qt.rr, qt.xx), RAdd(qt.yy, qt.zz)) = R(4)
     /\ ~RLess(qt.max, R(1))
     /\ qt.arg = RMul(qt.max, R(4))
     /\ ~RLess(qt.arg, R(0))
     /\ IsFinite(qt.div) /\ ~RIsZero(qt.div)
     /\ \A k \in 0..3 : IsFinite(qt.q[k])

\* a matrix that is no rotation, whose trace is below -1 (rr is negative)
\* and whose largest base is the last one tested
MatrixToQuaternionRootWitness ==
  /\ qt.pc = "quat"
  /\ ~IsRotation(input.A)
  /\ RLess(qt.rr, R(0))
  /\ qt.branch = "zz"

(***************************************************************************)
(* The calls of MP_LUdcmp: every shape up to LuMaxDim rows and columns,    *)
(* the empty ones with no row or no column included.                       *)
(* Up to 6 elements the matrices are all those over 0..2, up to 9 elements *)
(* all those over 0..1, above that the Toeplitz ones over 0..1.  The       *)
(* caller's index array holds 0 and its d holds 7 before the call.         *)
(***************************************************************************)
LuMatrices(rows, cols) ==
  IF rows * cols <= 6 THEN [0..(rows * cols - 1) -> 0..2]
  ELSE IF rows * cols <= 9 THEN [0..(rows * cols - 1) -> 0..1]
  ELSE { [k \in 0..(rows * cols - 1) |->
            t[(k \div cols) - (k % cols) + cols - 1]] :
         t \in [0..(rows + cols - 2) -> 0..1] }

LuCalls(rows, cols) ==
  { [rows |-> rows, cols |-> cols,
     A |-> [k \in 0..(rows * cols - 1) |-> R(a[k])],
     index |-> [i \in 0..(MP_min(rows, cols) - 1) |-> 0],
     d |-> R(7)] :
    a \in LuMatrices(rows, cols) }

LuInit ==
  /\ \E rows \in 0..LuMaxDim, cols \in 0..LuMaxDim :
        input \in LuCalls(rows, cols)
  /\ gj = Idle
  /\ ge = Idle
  /\ tri = Idle
  /\ dg = Idle
  /\ sw = Idle
  /\ qt = Idle
  /\ lu = Idle
  /\ svd = Idle
  /\ mm = Idle
  /\ lls = Idle
  /\ rq = Idle
  /\ mw = Idle
  /\ gl = Idle

CallLUdcmp ==
  /\ lu.pc = "idle"
  /\ lu' = LU_Begin(input.A, input.rows, input.cols, input.index, input.d)
  /\ UNCHANGED <<input, gj, ge, tri, dg, sw, qt, svd, mm, lls, rq, mw, gl>>

LUdcmpFinish ==
  /\ lu.pc = "factored"
  /\ lu' = LU_Finish(lu)
  /\ UNCHANGED <<input, gj, ge, tri, dg, sw, qt, svd, mm, lls, rq, mw, gl>>

LuNext ==
  \/ CallLUdcmp
  \/ LUdcmpFinish

LuSpec == LuInit /\ [][LuNext]_vars

LUSucceeded == lu.pc = "done" /\ lu.err = ""

\* the positions of the pivot array that record an effective interchange
LuInterchanges == { i \in 0..(lu.K - 1) : lu.index[i] # i + 1 }

\* the arrangement of the rows 0..rows-1 after the interchanges of
\* positions i, i+1, ... of the pivot array were applied to perm in order
RECURSIVE LuApply(_, _, _, _)
LuApply(perm, index, K, i) ==
  IF i >= K THEN perm
  ELSE LuApply([perm EXCEPT ![i] = perm[index[i] - 1],
                            ![index[i] - 1] = perm[i]], index, K, i + 1)

\* the sign of a permutation by its number of inversions
PermSign(perm) ==
  LET inv == { p \in (DOMAIN perm) \X (DOMAIN perm) :
                 p[1] < p[2] /\ perm[p[1]] > perm[p[2]] }
  IN  IF Cardinality(inv) % 2 = 0 THEN 1 ELSE 0 - 1

\* C16: after a successful factorization d is +1 when the pivot array
\* records an even number of effective interchanges and -1 when it records
\* an odd number, and d is the sign of the row permutation the
\* interchanges make when applied in order (so that, for a square A, d
\* times the product of the diagonal of the factorization is det A).
LUParityIsPermutationSign ==
  LUSucceeded =>
     /\ lu.d = R(IF Cardinality(LuInterchanges) % 2 = 0 THEN 1 ELSE 0 - 1)
     /\ lu.d = R(PermSign(LuApply([i \in 0..(lu.rows - 1) |-> i],
                                  lu.index, lu.K, 0)))
     /\ lu.rows = lu.cols =>
          RMul(lu.d, DiagProduct(lu.A, lu.rows, 0)) = Det(input.A, lu.rows)

\* a successful factorization of a 3x3 matrix whose only interchange moved
\* the last row to the top
LUParityWitness ==
  /\ LUSucceeded
  /\ lu.rows = 3 /\ lu.cols = 3
  /\ lu.index[0] = 3 /\ lu.index[1] = 2
  /\ lu.d = R(0 - 1)
  /\ lu.A # input.A

\* C28: when dgetrf_ returns a non-zero status (illegal value or singular
\* matrix) MP_LUdcmp writes its message and returns with the caller's A
\* and d exactly as they were on entry.
LUFailureLeavesArguments ==
  /\ (lu.pc = "done" /\ lu.INFO # 0) =>
        /\ lu.err = (IF lu.INFO < 0 THEN LU_Illegal ELSE LU_Singular)
        /\ lu.A = input.A
        /\ lu.d = input.d
  /\ (lu.pc = "done" /\ lu.INFO = 0) => lu.err = ""

\* a singular 3x3 matrix whose zero pivot came after the first column, so
\* that the local copy already held factors when the function returned
LUFailureWitness ==
  /\ lu.pc = "done" /\ lu.err = LU_Singular
  /\ lu.rows = 3 /\ lu.cols = 3 /\ lu.INFO > 1
  /\ lu.AT # FlatTranspose(input.A, 3, 3)

\* a matrix without rows, which dgetrf_ refuses (LDA = 0)
LUIllegalReached == lu.pc = "done" /\ lu.err = LU_Illegal

(***************************************************************************)
(* MP_svd (MPsvd.tpp), a wrapper of LAPACK's dgesvd_.  Matrices are flat   *)
(* row-major arrays.  dgesvd_ is modelled on the matrices whose singular   *)
(* vectors are signed unit vectors: there it returns one of the            *)
(* factorizations A = U * Sigma * V^T with U and V signed permutation      *)
(* matrices, which for distinct nonzero singular values are all there are. *)
(***************************************************************************)
\* the n x n signed permutation matrices
SignedPermutations(n) ==
  { [k \in 0..(n * n - 1) |->
       IF f[k \div n] = k % n THEN R(g[k \div n]) ELSE R(0)] :
    f \in { h \in [0..(n - 1) -> 0..(n - 1)] :
              \A i, j \in 0..(n - 1) : h[i] = h[j] => i = j },
    g \in [0..(n - 1) -> {0 - 1, 1}] }

\* Sigma is an M x N matrix that is zero off its diagonal and whose
\* diagonal is non-negative and descending
IsSigma(Sigma, M, N) ==
  /\ \A k \in DOMAIN Sigma : (k \div N # k % N) => RIsZero(Sigma[k])
  /\ \A i \in 0..(MP_min(M, N) - 1) :
        /\ ~RLess(Sigma[i * N + i], R(0))
        /\ i > 0 => ~RLess(Sigma[(i - 1) * N + (i - 1)], Sigma[i * N + i])

\* the factorizations of the M x N matrix A: U (M x M), V (N x N) and
\* Sigma = U^T * A * V
LA_dgesvdFactors(A, M, N) ==
  { f \in { [U |-> Uf, V |-> Vf,
             Sigma |-> MatMul(MatMul(FlatTranspose(Uf, M, M), A, M, M, N),
                              Vf, M, N, N)] :
            Uf \in SignedPermutations(M), Vf \in SignedPermutations(N) } :
      IsSigma(f.Sigma, M, N) }

\* dgesvd_(JOBU, JOBVT, M, N, a, LDA, s, u, LDU, vt, LDVT, ..., INFO) with
\* JOBU = JOBVT = job: the arrays as one of the factorizations leaves them.
\* s gets the min(M,N) singular values; u gets U column by column, M
\* columns for job 'A' and min(M,N) for job 'S'; vt gets V^T column by
\* column, N rows for job 'A' and min(M,N) for job 'S'; cells the routine
\* does not write keep their content.  U and VT are the factors written,
\* as matrices.
LA_dgesvd(job, M, N, a, LDA, s, u, LDU, vt, LDVT) ==
  LET A == [k \in 0..(M * N - 1) |-> a[(k \div N) + (k % N) * LDA]]
      K == MP_min(M, N)
      ucols == IF job = "A" THEN M ELSE K
      vrows == IF job = "A" THEN N ELSE K
  IN  { [s  |-> [i \in DOMAIN s |->
                   IF i < K THEN f.Sigma[i * N + i] ELSE s[i]],
         u  |-> [k \in DOMAIN u |->
                   IF k % LDU < M /\ k \div LDU < ucols
                   THEN f.U[(k % LDU) * M + (k \div LDU)] ELSE u[k]],
         vt |-> [k \in DOMAIN vt |->
                   IF k % LDVT < vrows /\ k \div LDVT < N
                   THEN f.V[(k \div LDVT) * N + (k % LDVT)] ELSE vt[k]],
         info |-> 0,
         U  |-> [k \in 0..(M * ucols - 1) |->
                   f.U[(k \div ucols) * M + (k % ucols)]],
         VT |-> [k \in 0..(vrows * N - 1) |->
                   f.V[(k % N) * N + (k \div N)]]] :
        f \in LA_dgesvdFactors(A, M, N) }

SVD_BadS      == "MP_svd: S is neither N-by-1 nor N-by-N."
SVD_Invalid   == "MP_svd: Invalid argument"
SVD_Diverged  == "MP_svd: Failed to converge."

\* lines 108-133: the dimensions, the transposition of A, the choice of
\* the job, the assertion on the shape of U, the reservation of UT.  U, S
\* and V are the caller's matrices (urows x ucols, srows x scols, N x N).
SVD_Begin(A, M, N, U, urows, ucols, S, srows, scols, V, econ) ==
  LET base == [M |-> M, N |-> N, LDA |-> M, LDU |-> M, LDVT |-> N,
               JOB |-> IF econ THEN "S" ELSE "A",
               AT |-> FlatTranspose(A, M, N),
               utrows |-> IF econ THEN N ELSE M, utcols |-> M,
               UT |-> <<>>, s |-> <<>>, INFO |-> 0,
               U |-> U, S |-> S, srows |-> srows, scols |-> scols, V |-> V,
               factU |-> <<>>, factVT |-> <<>>,
               wk |-> "none", called |-> FALSE,
               err |-> <<>>, ret |-> 0, pc |-> "ready"]
      ok == IF econ THEN urows = M /\ ucols = N ELSE urows = M /\ ucols = M
  IN  IF ok
      THEN [base EXCEPT !.UT = [k \in 0..(base.utrows * M - 1) |-> Uninit]]
      ELSE [base EXCEPT !.pc = "aborted"]

\* lines 135-145: the vector s, the workspace, the call of dgesvd_ on the
\* caller's V, the release of the workspace; the set of the results
SVD_Dispatch(st) ==
  { [st EXCEPT !.s = f.s, !.UT = f.u, !.V = f.vt, !.INFO = f.info,
               !.factU = f.U, !.factVT = f.VT,
               !.wk = "freed", !.called = TRUE, !.pc = "called"] :
    f \in LA_dgesvd(st.JOB, st.M, st.N, st.AT, st.LDA,
                    [i \in 0..(st.N - 1) |-> Uninit],
                    st.UT, st.LDU, st.V, st.LDVT) }

\* lines 147-166: U = UT.transpose(), the singular values into S (a vector
\* of N elements or an N x N matrix), the messages, the return of INFO
SVD_Finish(st) ==
  LET N == st.N
      vec == st.srows = N /\ st.scols = 1
      mat == st.srows = N /\ st.scols = N
      S1 == IF vec THEN st.s
            ELSE IF mat
            THEN MP_setDiag(st.s, [k \in DOMAIN st.S |-> R(0)], N, N, N, 0)
            ELSE st.S
      e1 == IF vec \/ mat THEN <<>> ELSE <<SVD_BadS>>
      e2 == IF st.INFO < 0 THEN <<SVD_Invalid>>
            ELSE IF st.INFO > 0 THEN <<SVD_Diverged>> ELSE <<>>
  IN  [st EXCEPT !.U = FlatTranspose(st.UT, st.utrows, st.utcols),
                 !.S = S1, !.err = e1 \o e2, !.ret = st.INFO, !.pc = "done"]

(***************************************************************************)
(* The calls of MP_svd: every shape up to SvdMaxDim rows and columns; A is *)
(* P * Sigma * Q with distinct singular values in 1..SvdMaxVal, P and Q    *)
(* signed permutation matrices up to 2 x 2, and Sigma * Q with Q a         *)
(* permutation matrix above that; econ true and false; U of shape M x M or *)
(* M x N; S a vector of N elements, an N x N matrix or a vector of N+1     *)
(* elements.  U, S and V hold 7 before the call.                           *)
(***************************************************************************)
\* the M x N matrices Sigma with a strictly descending diagonal in
\* 1..SvdMaxVal
SvdSigmas(M, N) ==
  { S \in { [k \in 0..(M * N - 1) |->
               IF k \div N = k % N THEN R(v[k \div N]) ELSE R(0)] :
            v \in [0..(MP_min(M, N) - 1) -> 1..SvdMaxVal] } :
      \A i \in 1..(MP_min(M, N) - 1) :
         RLess(S[i * N + i], S[(i - 1) * N + (i - 1)]) }

\* the n x n permutation matrices
PermutationMatrices(n) ==
  { Q \in SignedPermutations(n) : \A k \in DOMAIN Q : ~RLess(Q[k], R(0)) }

SvdMatrices(M, N) ==
  IF M <= 2 /\ N <= 2
  THEN { MatMul(MatMul(P, S, M, M, N), Q, M, N, N) :
         P \in SignedPermutations(M), S \in SvdSigmas(M, N),
         Q \in SignedPermutations(N) }
  ELSE { MatMul(S, Q, M, N, N) :
         S \in SvdSigmas(M, N), Q \in PermutationMatrices(N) }

SvdCalls(M, N) ==
  { [rows |-> M, cols |-> N, A |-> A, econ |-> econ,
     urows |-> M, ucols |-> ucols,
     U |-> [k \in 0..(M * ucols - 1) |-> R(7)],
     srows |-> sshape[1], scols |-> sshape[2],
     S |-> [k \in 0..(sshape[1] * sshape[2] - 1) |-> R(7)],
     V |-> [k \in 0..(N * N - 1) |-> R(7)]] :
    A \in SvdMatrices(M, N), econ \in BOOLEAN, ucols \in {M, N},
    sshape \in {<<N, 1>>, <<N, N>>, <<N + 1, 1>>} }

SvdInit ==
  /\ \E M \in 1..SvdMaxDim, N \in 1..SvdMaxDim : input \in SvdCalls(M, N)
  /\ gj = Idle
  /\ ge = Idle
  /\ tri = Idle
  /\ dg = Idle
  /\ sw = Idle
  /\ qt = Idle
  /\ lu = Idle
  /\ svd = Idle
  /\ mm = Idle
  /\ lls = Idle
  /\ rq = Idle
  /\ mw = Idle
  /\ gl = Idle

CallSvd ==
  /\ svd.pc = "idle"
  /\ svd' = SVD_Begin(input.A, input.rows, input.cols, input.U, input.urows,
                      input.ucols, input.S, input.srows, input.scols,
                      input.V, input.econ)
  /\ UNCHANGED <<input, gj, ge, tri, dg, sw, qt, lu, mm, lls, rq, mw, gl>>

SvdDispatch ==
  /\ svd.pc = "ready"
  /\ svd' \in SVD_Dispatch(svd)
  /\ UNCHANGED <<input, gj, ge, tri, dg, sw, qt, lu, mm, lls, rq, mw, gl>>

SvdFinish ==
  /\ svd.pc = "called"
  /\ svd' = SVD_Finish(svd)
  /\ UNCHANGED <<input, gj, ge, tri, dg, sw, qt, lu, mm, lls, rq, mw, gl>>

SvdNext ==
  \/ CallSvd
  \/ SvdDispatch
  \/ SvdFinish

SvdSpec == SvdInit /\ [][SvdNext]_vars

\* the call is one the documentation of MP_svd allows: the economy mode
\* only for M >= N, S a vector of N elements or an N x N matrix
SvdCallValid ==
  /\ input.econ => input.rows >= input.cols
  /\ input.srows = input.cols /\ input.scols \in {1, input.cols}

\* the matrix Sigma that goes between the returned U and the returned
\* fourth output: the singular values handed back in S on its diagonal
SvdSigmaOf(S, scols, rows, cols) ==
  [k \in 0..(rows * cols - 1) |->
     IF k \div cols = k % cols
     THEN S[IF scols = 1 THEN k % cols ELSE (k % cols) * scols + (k % cols)]
     ELSE R(0)]

\* C17: read as a row-major matrix, the fourth output of MP_svd is V^T:
\* its element (i,j) is element (i,j) of the V^T factor the decomposition
\* computed and U * diag(S) * (fourth output) is A, while the returned U
\* has element (i,j) equal to element (i,j) of the U factor.
SvdReturnsVTransposed ==
  (svd.pc = "done" /\ SvdCallValid) =>
     LET M == input.rows
         N == input.cols
         ucols == IF input.econ THEN N ELSE M
     IN  /\ svd.V = svd.factVT
         /\ svd.U = svd.factU
         /\ MatMul(MatMul(svd.U,
                          SvdSigmaOf(svd.S, input.scols, ucols, N),
                          M, ucols, N),
                   svd.V, M, N, N) = input.A

\* C18: a call with econ = true on an M x N matrix with M < N is rejected
\* and never passed on to the decomposition.
SvdEconRejectsWide ==
  (svd.pc # "idle" /\ input.econ /\ input.rows < input.cols) =>
     (svd.pc = "aborted" /\ ~svd.called)

(***************************************************************************)
(* The calls of MP_lls: D of up to LlsMaxRows rows and LlsMaxCols columns  *)
(* (up to 6 elements every matrix over -1..1, above that the Toeplitz ones *)
(* over 0..1), among them matrices with dependent columns; B of as many    *)
(* rows and up to LlsMaxCols columns.                                      *)
(***************************************************************************)
LlsMatrices(M, N) ==
  IF M * N <= 6 THEN [0..(M * N - 1) -> (0 - 1)..1]
  ELSE { [k \in 0..(M * N - 1) |-> t[(k \div N) - (k % N) + N - 1]] :
         t \in [0..(M + N - 2) -> 0..1] }

LlsCalls(M, N, P) ==
  { [rows |-> M, cols |-> N, p |-> P,
     D |-> [k \in 0..(M * N - 1) |-> R(d[k])],
     B |-> [k \in 0..(M * P - 1) |->
              R(((k % P) + 1) * (IF b = 0 THEN (k \div P) + 1
                                 ELSE IF ((k \div P) + (k % P)) % M = 0
                                 THEN 1 ELSE 0))]] :
    d \in LlsMatrices(M, N), b \in 0..1 }

LlsInit ==
  /\ \E M \in 1..LlsMaxRows, N \in 1..LlsMaxCols, P \in 1..LlsMaxCols :
        input \in LlsCalls(M, N, P)
  /\ gj = Idle
  /\ ge = Idle
  /\ tri = Idle
  /\ dg = Idle
  /\ sw = Idle
  /\ qt = Idle
  /\ lu = Idle
  /\ svd = Idle
  /\ mm = Idle
  /\ lls = Idle
  /\ rq = Idle
  /\ mw = Idle
  /\ gl = Idle

CallLls ==
  /\ lls.pc = "idle"
  /\ lls' = LLS_Begin(input.D, input.B, input.rows, input.cols, input.p)
  /\ UNCHANGED <<input, gj, ge, tri, dg, sw, qt, lu, svd, mm, rq, mw, gl>>

LlsGaussJordan ==
  /\ lls.pc = "solving"
  /\ lls' = LLS_Solve(lls)
  /\ UNCHANGED <<input, gj, ge, tri, dg, sw, qt, lu, svd, mm, rq, mw, gl>>

LlsNext ==
  \/ CallLls
  \/ LlsGaussJordan

LlsSpec == LlsInit /\ [][LlsNext]_vars

\* D^T * D and D^T * B of the caller's matrices
LlsNormalMatrix ==
  MatMul(FlatTranspose(input.D, input.rows, input.cols), input.D,
         input.cols, input.rows, input.cols)
LlsNormalRhs ==
  MatMul(FlatTranspose(input.D, input.rows, input.cols), input.B,
         input.cols, input.rows, input.p)

\* the columns of D are linearly independent
LlsIndependent == Invertible(LlsNormalMatrix, input.cols)

\* C19: for D with linearly independent columns MP_lls hands MP_GaussJordan
\* A = D^T D and the right-hand side D^T B, calls it once, and returns the
\* N x P matrix X with (D^T D) X = D^T B, D and B being left unchanged.
LlsSolvesNormalEquations ==
  /\ lls.pc = "solving" =>
       (lls.A = LlsNormalMatrix /\ lls.MB = LlsNormalRhs /\ lls.calls = 0)
  /\ (lls.pc = "done" /\ LlsIndependent) =>
       /\ lls.err = "" /\ lls.calls = 1
       /\ DOMAIN lls.X = 0..(input.cols * input.p - 1)
       /\ MatMul(LlsNormalMatrix, lls.X, input.cols, input.cols, input.p)
            = LlsNormalRhs
       /\ lls.D = input.D /\ lls.B = input.B

\* an overdetermined system (3 equations, 2 unknowns, 2 right-hand sides)
\* has been solved and its solution is not a solution of D X = B itself
LlsSolvesWitness ==
  /\ lls.pc = "done" /\ LlsIndependent
  /\ input.rows = 3 /\ input.cols = 2 /\ input.p = 2
  /\ MatMul(input.D, lls.X, 3, 2, 2) # input.B
  /\ \E k \in DOMAIN lls.X : lls.X[k][2] > 1

(***************************************************************************)
(* The calls of MP_matrixMultiply(A, B, C): A, B and C of every shape up   *)
(* to MulMaxDim rows and columns, compatible or not.  A holds k+1 at       *)
(* linear index k, B holds k+2, C holds 7; the memory behind B and behind  *)
(* C holds 0 in every cell, or 9.                                          *)
(***************************************************************************)
MulCalls(arows, acols, brows, bcols, crows, ccols) ==
  { [arows |-> arows, acols |-> acols, brows |-> brows, bcols |-> bcols,
     crows |-> crows, ccols |-> ccols,
     A |-> [k \in 0..(arows * acols - 1) |-> R(k + 1)],
     B |-> [k \in 0..(brows * bcols - 1) |-> R(k + 2)],
     C |-> [k \in 0..(crows * ccols - 1) |-> R(7)],
     behindB |-> [k \in MM_Read(acols, bcols) \ (0..(brows * bcols - 1))
                    |-> R(g)],
     behindC |-> [k \in MM_Written(arows, bcols) \ (0..(crows * ccols - 1))
                    |-> R(g)]] :
    g \in {0, 9} }

MulInit ==
  /\ \E arows \in 1..MulMaxDim, acols \in 1..MulMaxDim,
        brows \in 1..MulMaxDim, bcols \in 1..MulMaxDim,
        crows \in 1..MulMaxDim, ccols \in 1..MulMaxDim :
        input \in MulCalls(arows, acols, brows, bcols, crows, ccols)
  /\ gj = Idle
  /\ ge = Idle
  /\ tri = Idle
  /\ dg = Idle
  /\ sw = Idle
  /\ qt = Idle
  /\ lu = Idle
  /\ svd = Idle
  /\ mm = Idle
  /\ lls = Idle
  /\ rq = Idle
  /\ mw = Idle
  /\ gl = Idle

\* MP_matrixMultiply(A, B, C).  The function tests nothing and writes no
\* message.  A read behind B or a write behind C is undefined: the call
\* faults, or it goes on with the memory that lies there.
CallMatrixMultiply ==
  /\ mm.pc = "idle"
  /\ LET readOutside  == DOMAIN input.behindB # {}
         wroteOutside == DOMAIN input.behindC # {}
     IN  \/ mm' = [pc |-> "returned", err |-> "",
                   readOutside |-> readOutside, wroteOutside |-> wroteOutside,
                   mem |-> MP_matrixMultiply(input.A,
                                             input.B @@ input.behindB,
                                             input.C @@ input.behindC,
                                             input.arows, input.acols,
                                             input.bcols)]
         \/ /\ readOutside \/ wroteOutside
            /\ mm' = [pc |-> "fault", err |-> "",
                      readOutside |-> readOutside,
                      wroteOutside |-> wroteOutside,
                      mem |-> input.C @@ input.behindC]
  /\ UNCHANGED <<input, gj, ge, tri, dg, sw, qt, lu, svd, lls, rq, mw, gl>>

MulNext == CallMatrixMultiply

MulSpec == MulInit /\ [][MulNext]_vars

\* the shapes do not fit C = A * B
MulMismatch ==
  \/ input.brows # input.acols
  \/ input.crows # input.arows
  \/ input.ccols # input.bcols

\* C20: when B does not have as many rows as A has columns, or C is not
\* rows(A) x cols(B), MP_matrixMultiply reports the mismatch and neither
\* reads B nor writes C outside their bounds.
MatrixMultiplyRejectsMismatch ==
  (mm.pc # "idle" /\ MulMismatch) =>
     (mm.err # "" /\ ~mm.readOutside /\ ~mm.wroteOutside)

(***************************************************************************)
(* MP_RQdcmp (MPrq.tpp), a wrapper of LAPACK's dgerqf_ and dorgrq_.  The   *)
(* two routines are modelled by their unblocked algorithm on the           *)
(* column-major array, element (i, j) at i + j*LDA: dgerqf_ reduces the    *)
(* rows from the last one up by Householder reflectors H(i) = I - tau v v^T*)
(* applied from the right, dorgrq_ multiplies the reflectors out.          *)
(***************************************************************************)
RECURSIVE LA_SumSquares(_, _, _)
LA_SumSquares(x, j, p) ==
  IF j >= p THEN R(0) ELSE RAdd(RMul(x[j], x[j]), LA_SumSquares(x, j + 1, p))

\* dlarfg on alpha and the p elements x: the reflector that maps (x, alpha)
\* to (0, beta); tau = 0 (H = I) when x is already zero
LA_dlarfg(alpha, x, p) ==
  LET xn2 == LA_SumSquares(x, 0, p)
      nrm == RSqrt(RAdd(RMul(alpha, alpha), xn2))
      beta == IF RLess(alpha, R(0)) THEN nrm ELSE RSub(R(0), nrm)
  IN  IF p = 0 \/ RIsZero(xn2) THEN [beta |-> alpha, tau |-> R(0), x |-> x]
      ELSE [beta |-> beta, tau |-> RDiv(RSub(beta, alpha), beta),
            x |-> [j \in DOMAIN x |-> RDiv(x[j], RSub(alpha, beta))]]

\* the sum over the columns j..p of a(t, j) * v[j]
RECURSIVE LA_RowDot(_, _, _, _, _, _)
LA_RowDot(a, LDA, t, v, j, p) ==
  IF j > p THEN R(0)
  ELSE RAdd(RMul(a[t + j * LDA], v[j]), LA_RowDot(a, LDA, t, v, j + 1, p))

\* reflector i of dgerqf_ (0-based): row r = M-K+i is reduced to beta in
\* column p = N-K+i with the vector v stored left of it, and H(i) is
\* applied to the rows above
LA_dgerqfRow(s, M, N, LDA, i) ==
  LET K == MP_min(M, N)
      r == M - K + i
      p == N - K + i
      g == LA_dlarfg(s.a[r + p * LDA], [j \in 0..(p - 1) |-> s.a[r + j * LDA]], p)
      v == [j \in 0..p |-> IF j = p THEN R(1) ELSE g.x[j]]
  IN  [a |-> [k \in DOMAIN s.a |->
                LET t == k % LDA
                    j == k \div LDA
                IN  IF t = r /\ j < p THEN g.x[j]
                    ELSE IF t = r /\ j = p THEN g.beta
                    ELSE IF t < r /\ j <= p
                    THEN RSub(s.a[k],
                              RMul(RMul(g.tau, LA_RowDot(s.a, LDA, t, v, 0, p)),
                                   v[j]))
                    ELSE s.a[k]],
       tau |-> [s.tau EXCEPT ![i] = g.tau],
       info |-> s.info]

RECURSIVE LA_dgerqfFrom(_, _, _, _, _)
LA_dgerqfFrom(s, M, N, LDA, i) ==
  IF i < 0 THEN s
  ELSE LA_dgerqfFrom(LA_dgerqfRow(s, M, N, LDA, i), M, N, LDA, i - 1)

\* dgerqf_(&M, &N, a, &LDA, tau, work, &LWORK, &INFO) with the workspace
\* the size query asked for: INFO < 0 for an illegal argument, nothing
\* written; else the factorization
LA_dgerqf(M, N, a, LDA, tau) ==
  IF M < 0 THEN [a |-> a, tau |-> tau, info |-> 0 - 1]
  ELSE IF N < 0 THEN [a |-> a, tau |-> tau, info |-> 0 - 2]
  ELSE IF LDA < (IF M > 1 THEN M ELSE 1)
  THEN [a |-> a, tau |-> tau, info |-> 0 - 4]
  ELSE LA_dgerqfFrom([a |-> a, tau |-> tau, info |-> 0], M, N, LDA,
                     MP_min(M, N) - 1)

\* H(i) of order n for dorgrq_(m, n, k, a, LDA, tau): v has 1 in column
\* n-k+i, the elements of row m-k+i of a left of it and 0 right of it
LA_Reflector(m, n, k, a, LDA, tau, i) ==
  LET v == [j \in 0..(n - 1) |->
              IF j = n - k + i THEN R(1)
              ELSE IF j < n - k + i THEN a[(m - k + i) + j * LDA]
              ELSE R(0)]
  IN  [x \in (0..(n - 1)) \X (0..(n - 1)) |->
         RSub(R(IF x[1] = x[2] THEN 1 ELSE 0),
              RMul(RMul(tau[i], v[x[1]]), v[x[2]]))]

RECURSIVE LA_PairDot(_, _, _, _, _, _)
LA_PairDot(P, Q, n, row, col, j) ==
  IF j >= n THEN R(0)
  ELSE RAdd(RMul(P[<<row, j>>], Q[<<j, col>>]),
            LA_PairDot(P, Q, n, row, col, j + 1))

\* H(i) H(i+1) ... H(k-1)
RECURSIVE LA_ReflectorProduct(_, _, _, _, _, _, _)
LA_ReflectorProduct(m, n, k, a, LDA, tau, i) ==
  IF i >= k
  THEN [x \in (0..(n - 1)) \X (0..(n - 1)) |-> R(IF x[1] = x[2] THEN 1 ELSE 0)]
  ELSE LET H == LA_Reflector(m, n, k, a, LDA, tau, i)
           T == LA_ReflectorProduct(m, n, k, a, LDA, tau, i + 1)
       IN  [x \in (0..(n - 1)) \X (0..(n - 1)) |->
              LA_PairDot(H, T, n, x[1], x[2], 0)]

\* dorgrq_(&m, &n, &k, a, &LDA, tau, work, &LWORK, &INFO): the m x n part
\* of a is overwritten with the last m rows of H(0) H(1) ... H(k-1)
LA_dorgrq(m, n, k, a, LDA, tau) ==
  IF m < 0 THEN [a |-> a, info |-> 0 - 1]
  ELSE IF n < m THEN [a |-> a, info |-> 0 - 2]
  ELSE IF k < 0 \/ k > m THEN [a |-> a, info |-> 0 - 3]
  ELSE IF LDA < (IF m > 1 THEN m ELSE 1) THEN [a |-> a, info |-> 0 - 5]
  ELSE LET P == LA_ReflectorProduct(m, n, k, a, LDA, tau, 0)
       IN  [a |-> [x \in DOMAIN a |->
                     IF x % LDA < m /\ x \div LDA < n
                     THEN P[<<n - m + (x % LDA), x \div LDA>>] ELSE a[x]],
            info |-> 0]

RQ_IllegalF == "dgerqf_: Illegal value at argument"
RQ_IllegalQ == "dorgrq_: Illegal value at argument"

\* lines 71-101: the transposition, TAU and WORK from the heap, the call of
\* dgerqf_ and the test of INFO.  R and Q are the caller's matrices as the
\* function has left them so far (R of rrows x rcols), heap the buffers
\* that are allocated and not deleted.
RQ_Begin(A, M, N, Rin, rrows, rcols, Qin) ==
  LET K == MP_min(M, N)
      LDA == IF M > 1 THEN M ELSE 1
      f == LA_dgerqf(M, N, FlatTranspose(A, M, N), LDA,
                     [i \in 0..(K - 1) |-> Uninit])
      s == [M |-> M, N |-> N, K |-> K, LDA |-> LDA, AT |-> f.a,
            TAU |-> f.tau, INFO |-> f.info, R |-> Rin, rrows |-> rrows,
            rcols |-> rcols, Q |-> Qin, qrows |-> M, qcols |-> N,
            heap |-> {"TAU", "WORK"}, outside |-> FALSE,
            err |-> "", ret |-> 0, pc |-> "factored"]
  IN  IF f.info < 0
      THEN [s EXCEPT !.err = RQ_IllegalF, !.ret = f.info, !.pc = "done"]
      ELSE s

\* lines 106-108: R(i, j) = AT(N-M+j, i) for j = i..M-1, from row i on;
\* ok is false once an index is refused
RECURSIVE RQ_UpperFrom(_, _, _, _, _, _, _, _)
RQ_UpperFrom(Rm, rrows, rcols, AT, M, N, i, j) ==
  IF i >= M THEN [R |-> Rm, ok |-> TRUE]
  ELSE IF j >= M THEN RQ_UpperFrom(Rm, rrows, rcols, AT, M, N, i + 1, i + 1)
  ELSE IF i >= rrows \/ j >= rcols THEN [R |-> Rm, ok |-> FALSE]
  ELSE RQ_UpperFrom([Rm EXCEPT ![i * rcols + j] = AT[(N - M + j) * M + i]],
                    rrows, rcols, AT, M, N, i, j + 1)

\* lines 131-135: R(i, j) = 0.0 for j = 0..i-2, from row i and column j
\* on, in the M x N matrix R; ok is false once an index is refused
RECURSIVE RQ_ZeroFrom(_, _, _, _, _)
RQ_ZeroFrom(Rm, M, N, i, j) ==
  IF i >= M THEN [R |-> Rm, ok |-> TRUE]
  ELSE IF j >= i - 1 THEN RQ_ZeroFrom(Rm, M, N, i + 1, 0)
  ELSE IF j >= N THEN [R |-> Rm, ok |-> FALSE]
  ELSE RQ_ZeroFrom([Rm EXCEPT ![i * N + j] = R(0)], M, N, i, j + 1)

\* lines 103-168: the extraction of R, the formation of Q, the release of
\* the buffers.  grow tells whether dorgrq_ asks for more workspace than
\* dgerqf_ did, in which case WORK is deleted and allocated anew.
RQ_Extract(s, grow) ==
  LET M == s.M
      N == s.N
      work == IF grow THEN (s.heap \ {"WORK"}) \cup {"WORK"} ELSE s.heap
  IN  IF M <= N
      THEN LET u == RQ_UpperFrom([k \in DOMAIN s.R |-> R(0)], s.rrows,
                                 s.rcols, s.AT, M, N, 0, 0)
               g == LA_dorgrq(M, N, M, s.AT, s.LDA, s.TAU)
           IN  IF ~u.ok
               THEN [s EXCEPT !.R = u.R, !.outside = TRUE, !.pc = "aborted"]
               ELSE [s EXCEPT !.R = u.R, !.AT = g.a, !.INFO = g.info,
                              !.Q = FlatTranspose(g.a, N, M),
                              !.qrows = M, !.qcols = N,
                              !.heap = work \ {"WORK", "TAU"},
                              !.ret = g.info, !.pc = "done"]
      ELSE LET z == RQ_ZeroFrom(FlatTranspose(s.AT, N, M), M, N, M - N, 0)
               H == [k \in 0..(N * N - 1) |->
                       s.AT[(k \div N) * M + (M - N + (k % N))]]
               g == LA_dorgrq(N, N, N, H, N, s.TAU)
           IN  IF ~z.ok
               THEN [s EXCEPT !.R = z.R, !.rrows = M, !.rcols = N,
                              !.outside = TRUE, !.pc = "aborted"]
               ELSE [s EXCEPT !.R = z.R, !.rrows = M, !.rcols = N,
                              !.INFO = g.info,
                              !.err = IF g.info < 0 THEN RQ_IllegalQ ELSE "",
                              !.Q = FlatTranspose(g.a, N, N),
                              !.qrows = N, !.qcols = N,
                              !.heap = work \ {"WORK", "TAU"},
                              !.ret = g.info, !.pc = "done"]

(***************************************************************************)
(* The calls of MP_RQdcmp: every shape up to RqMaxRows x RqMaxCols; up to  *)
(* 6 elements the matrices are all those over -1..1, up to 9 elements all  *)
(* those over 0..1, above that the Toeplitz ones over 0..1.  The caller's  *)
(* R and Q are M x N matrices that hold 7 before the call.                 *)
(***************************************************************************)
RqMatrices(rows, cols) ==
  IF rows * cols <= 6 THEN [0..(rows * cols - 1) -> (0 - 1)..1]
  ELSE IF rows * cols <= 9 THEN [0..(rows * cols - 1) -> 0..1]
  ELSE { [k \in 0..(rows * cols - 1) |->
            t[(k \div cols) - (k % cols) + cols - 1]] :
         t \in [0..(rows + cols - 2) -> 0..1] }

RqCalls(rows, cols) ==
  { [rows |-> rows, cols |-> cols,
     A |-> [k \in 0..(rows * cols - 1) |-> R(a[k])],
     R0 |-> [k \in 0..(rows * cols - 1) |-> R(7)],
     Q0 |-> [k \in 0..(rows * cols - 1) |-> R(7)]] :
    a \in RqMatrices(rows, cols) }

RqInit ==
  /\ \E rows \in 1..RqMaxRows, cols \in 1..RqMaxCols :
        input \in RqCalls(rows, cols)
  /\ gj = Idle
  /\ ge = Idle
  /\ tri = Idle
  /\ dg = Idle
  /\ sw = Idle
  /\ qt = Idle
  /\ lu = Idle
  /\ svd = Idle
  /\ mm = Idle
  /\ lls = Idle
  /\ rq = Idle
  /\ mw = Idle
  /\ gl = Idle

\* MP_RQdcmp(A, R, Q) up to the test of dgerqf_'s INFO
CallRQdcmp ==
  /\ rq.pc = "idle"
  /\ rq' = RQ_Begin(input.A, input.rows, input.cols, input.R0, input.rows,
                    input.cols, input.Q0)
  /\ UNCHANGED <<input, gj, ge, tri, dg, sw, qt, lu, svd, mm, lls, mw, gl>>

\* the rest of MP_RQdcmp
RQdcmpExtract ==
  /\ rq.pc = "factored"
  /\ \E grow \in BOOLEAN : rq' = RQ_Extract(rq, grow)
  /\ UNCHANGED <<input, gj, ge, tri, dg, sw, qt, lu, svd, mm, lls, mw, gl>>

RqNext ==
  \/ CallRQdcmp
  \/ RQdcmpExtract

RqSpec == RqInit /\ [][RqNext]_vars

\* the calls of the M > N branch that have gone through the extraction
RqTallExtracted == rq.pc \in {"done", "aborted"} /\ rq.INFO >= 0 /\ rq.M > rq.N

\* C22: in the M > N branch the returned M x N matrix R has the entries of
\* the factored matrix on and above the (M-N)-th subdiagonal (column j >=
\* i - (M-N) in row i) and 0 below it, and no element outside R is
\* accessed.
RqTallIsTrapezoidal ==
  RqTallExtracted =>
     /\ ~rq.outside
     /\ rq.rrows = rq.M /\ rq.rcols = rq.N
     /\ \A i \in 0..(rq.M - 1), j \in 0..(rq.N - 1) :
          rq.R[i * rq.N + j] =
             IF j >= i - (rq.M - rq.N) THEN rq.AT[i + j * rq.M] ELSE R(0)

\* ------------------------------------------------------------------
\* NailArt/MainWindow: the filter sliders and their spin boxes
\* (MainWindow.cpp createGroupFilter, change.cpp).  A slider holds an
\* integer.  A QDoubleSpinBox holds a decimal fraction with at most two
\* digits here, kept as a whole number of hundredths.
\* ------------------------------------------------------------------

NUMSLIDERS == 5

Sliders == 0..(NUMSLIDERS - 1)

\* index of the gamma pair
GAMMA == 2

Hundred == 100

\* QSlider::setRange of createGroupFilter
MW_SliderMin(i) == CASE i = 0 -> -256 [] i = 1 -> -100 [] OTHER -> 1

MW_SliderMax(i) == CASE i = 0 -> 256 [] OTHER -> 100

\* QDoubleSpinBox::setMinimum / setMaximum of createGroupFilter, in hundredths
MW_SpinMin(i) == CASE i = 0 -> -25600 [] i = 1 -> -10000 [] i = GAMMA -> 10 [] OTHER -> 100

MW_SpinMax(i) == CASE i = 0 -> 25600 [] i = GAMMA -> 1000 [] OTHER -> 10000

\* QDoubleSpinBox::setDecimals of createGroupFilter
MW_Decimals(i) == IF i = GAMMA THEN 2 ELSE 0

\* the values the constructor and reset() give the sliders
MW_SliderDefault(i) == CASE i = 0 -> 0 [] i = 1 -> 0 [] i = GAMMA -> 10 [] OTHER -> 3

\* the values the constructor gives the spin boxes, in hundredths
MW_SpinDefault(i) == CASE i = 0 -> 0 [] i = 1 -> 0 [] i = GAMMA -> 100 [] OTHER -> 300

MW_Bound(v, lo, hi) == IF v < lo THEN lo ELSE IF v > hi THEN hi ELSE v

\* conversion of a double (in hundredths) to int: the fraction is dropped
MW_ToInt(h) == IF h >= 0 THEN h \div Hundred ELSE -((-h) \div Hundred)

\* a value in hundredths rounded to the digits a spin box keeps
MW_Round(h, dec) ==
  IF dec = 2 THEN h
  ELSE IF h >= 0 THEN ((h + 50) \div Hundred) * Hundred
       ELSE -(((-h) + 50) \div Hundred) * Hundred

\* QSlider::setValue
MW_SliderSet(s, i, v) ==
  [s EXCEPT !.slider[i] = MW_Bound(v, MW_SliderMin(i), MW_SliderMax(i))]

\* QDoubleSpinBox::setValue, h in hundredths
MW_SpinSet(s, i, h) ==
  [s EXCEPT !.spinBox[i] =
      MW_Bound(MW_Round(h, MW_Decimals(i)), MW_SpinMin(i), MW_SpinMax(i))]

\* the parameters applyFilter collects from the sliders, in hundredths:
\* gamma is slider / 10., the others are the slider's value
MW_Collect(s) ==
  [i \in Sliders |-> IF i = GAMMA THEN s.slider[i] * 10 ELSE s.slider[i] * Hundred]

\* preview(): applyFilter returns at once when no image is loaded
MW_preview(s) == IF s.image THEN [s EXCEPT !.params = MW_Collect(s)] ELSE s

\* changeBrightnessI, changeContrastI, changeFilterSizeI, changeFilterFctrI:
\* both widgets of pair i take val (their signals are blocked meanwhile)
MW_PairSet(s, i, val) == MW_preview(MW_SpinSet(MW_SliderSet(s, i, val), i, val * Hundred))

changeBrightnessI(s, val) == MW_PairSet(s, 0, val)

changeContrastI(s, val) == MW_PairSet(s, 1, val)

changeFilterSizeI(s, val) == MW_PairSet(s, 3, val)

changeFilterFctrI(s, val) == MW_PairSet(s, 4, val)

\* changeGammaI: the slider takes val, the spin box val / 10.0
changeGammaI(s, val) ==
  MW_preview(MW_SpinSet(MW_SliderSet(s, GAMMA, val), GAMMA, val * 10))

\* changeBrightnessD and the like: the double is converted to int first
changeBrightnessD(s, h) == changeBrightnessI(s, MW_ToInt(h))

changeContrastD(s, h) == changeContrastI(s, MW_ToInt(h))

changeFilterSizeD(s, h) == changeFilterSizeI(s, MW_ToInt(h))

changeFilterFctrD(s, h) == changeFilterFctrI(s, MW_ToInt(h))

\* changeGammaD: the slider takes val * 10 converted to int, the spin box val
changeGammaD(s, h) ==
  MW_preview(MW_SpinSet(MW_SliderSet(s, GAMMA, MW_ToInt(h * 10)), GAMMA, h))

\* the slot connected to valueChanged(int) of slider i
MW_SliderSlot(s, i, val) ==
  CASE i = 0 -> changeBrightnessI(s, val)
    [] i = 1 -> changeContrastI(s, val)
    [] i = GAMMA -> changeGammaI(s, val)
    [] i = 3 -> changeFilterSizeI(s, val)
    [] OTHER -> changeFilterFctrI(s, val)

\* the slot connected to valueChanged(double) of spin box i
MW_SpinSlot(s, i, h) ==
  CASE i = 0 -> changeBrightnessD(s, h)
    [] i = 1 -> changeContrastD(s, h)
    [] i = GAMMA -> changeGammaD(s, h)
    [] i = 3 -> changeFilterSizeD(s, h)
    [] OTHER -> changeFilterFctrD(s, h)

\* a slider takes a value with its signals open: valueChanged(int) is
\* emitted, and the connected slot runs, only when the value changes
MW_SliderChanged(s, i, v) ==
  LET moved == MW_SliderSet(s, i, v)
  IN IF moved.slider[i] = s.slider[i] THEN s
     ELSE MW_SliderSlot(moved, i, moved.slider[i])

\* reset(): the five sliders take their defaults one after the other,
\* then preview()
RECURSIVE MW_resetFrom(_, _)
MW_resetFrom(s, i) ==
  IF i >= NUMSLIDERS THEN MW_preview(s)
  ELSE MW_resetFrom(MW_SliderChanged(s, i, MW_SliderDefault(i)), i + 1)

\* the state createGroupFilter leaves
MW_Constructed ==
  [pc |-> "ready",
   slider |-> [i \in Sliders |-> MW_SliderDefault(i)],
   spinBox |-> [i \in Sliders |-> MW_SpinDefault(i)],
   image |-> FALSE,
   params |-> [i \in Sliders |-> 0]]

\* ---- harness -------------------------------------------------------

\* the positions the user drags slider i to: those of its range at most
\* MwMaxMove away from the default
MW_SliderTargets(i) ==
  {v \in (MW_SliderDefault(i) - MwMaxMove)..(MW_SliderDefault(i) + MwMaxMove) :
      v >= MW_SliderMin(i) /\ v <= MW_SliderMax(i)}

\* the values the user enters in spin box i, in hundredths: those the box
\* can show (its range, its digits) at most MwMaxMove slider steps away
\* from the default
MW_SpinTargets(i) ==
  LET step == IF i = GAMMA THEN 10 ELSE Hundred
  IN {h \in (MW_SpinDefault(i) - MwMaxMove * step)..(MW_SpinDefault(i) + MwMaxMove * step) :
        /\ h >= MW_SpinMin(i) /\ h <= MW_SpinMax(i)
        /\ MW_Round(h, MW_Decimals(i)) = h}

MwInit ==
  /\ input = Idle
  /\ gj = Idle
  /\ ge = Idle
  /\ tri = Idle
  /\ dg = Idle
  /\ sw = Idle
  /\ qt = Idle
  /\ lu = Idle
  /\ svd = Idle
  /\ mm = Idle
  /\ lls = Idle
  /\ rq = Idle
  /\ mw = MW_Constructed
  /\ gl = Idle

\* load(): a file was chosen; the image is read and previewed
MwLoad ==
  /\ mw.pc = "ready"
  /\ ~mw.image
  /\ mw' = MW_preview([mw EXCEPT !.image = TRUE])
  /\ UNCHANGED <<input, gj, ge, tri, dg, sw, qt, lu, svd, mm, lls, rq, gl>>

\* the user drags a slider
MwSliderMoved ==
  /\ mw.pc = "ready"
  /\ \E i \in Sliders : \E v \in MW_SliderTargets(i) :
        /\ v # mw.slider[i]
        /\ mw' = MW_SliderChanged(mw, i, v)
  /\ UNCHANGED <<input, gj, ge, tri, dg, sw, qt, lu, svd, mm, lls, rq, gl>>

\* the user enters a value in a spin box: the box takes it and emits
\* valueChanged(double)
MwSpinBoxEdited ==
  /\ mw.pc = "ready"
  /\ \E i \in Sliders : \E h \in MW_SpinTargets(i) :
        /\ h # mw.spinBox[i]
        /\ mw' = MW_SpinSlot(MW_SpinSet(mw, i, h), i, h)
  /\ UNCHANGED <<input, gj, ge, tri, dg, sw, qt, lu, svd, mm, lls, rq, gl>>

\* the reset button
MwReset ==
  /\ mw.pc = "ready"
  /\ mw' = MW_resetFrom(mw, 0)
  /\ UNCHANGED <<input, gj, ge, tri, dg, sw, qt, lu, svd, mm, lls, rq, gl>>

MwNext ==
  \/ MwLoad
  \/ MwSliderMoved
  \/ MwSpinBoxEdited
  \/ MwReset

MwSpec == MwInit /\ [][MwNext]_vars

\* C29: after any sequence of slider and spin-box changes each slider and
\* its spin box hold the same value (the gamma slider ten times its spin
\* box), and the parameters applyFilter read from the sliders are the
\* values the spin boxes show.
SlidersMatchSpinBoxes ==
  mw.pc = "ready" =>
     /\ \A i \in Sliders : MW_Collect(mw)[i] = mw.spinBox[i]
     /\ mw.image => mw.params = mw.spinBox

\* ------------------------------------------------------------------
\* NailArt/GLWidget: the OpenGL display lists (GLWidget.cpp).  gl.live is
\* the set of list names that were generated and compiled and not yet
\* deleted; the three members hold names.
\* ------------------------------------------------------------------

\* the list names of the GL context
GL_Names == 1..GlMaxLists

\* what a member that was never assigned may hold
GL_Garbage == 0..GlMaxLists

\* glGenLists(1): an unused name; the lowest one is taken
GL_glGenLists(live) == CHOOSE n \in GL_Names \ live : \A m \in GL_Names \ live : n <= m

\* glDeleteLists(list, 1): a name that is not in use is ignored
GL_glDeleteLists(live, list) == live \ {list}

\* initDisplayLists(flag): nothing is deleted before the members are
\* assigned
GL_initDisplayLists(s, flag) ==
  LET board == GL_glGenLists(s.live)
      live1 == s.live \cup {board}
      nail == GL_glGenLists(live1)
      live2 == live1 \cup {nail}
      s1 == IF flag THEN [s EXCEPT !.boardList = board, !.nailList = nail, !.live = live2]
            ELSE s
      nails == GL_glGenLists(s1.live)
  IN [s1 EXCEPT !.nailsList = nails, !.live = s1.live \cup {nails}]

\* initializeGL()
GL_initializeGL(s) == [GL_initDisplayLists(s, TRUE) EXCEPT !.pc = "ready"]

\* paintGL(): the lists are generated again at each call
GL_paintGL(s) == GL_initDisplayLists(s, TRUE)

\* QGLWidget::updateGL(): initializeGL() first when it has not run yet
GL_updateGL(s) == IF s.pc = "constructed" THEN GL_paintGL(GL_initializeGL(s)) ELSE GL_paintGL(s)

\* reset()
GL_reset(s) == GL_updateGL([s EXCEPT !.rotation = <<0, 0>>])

\* setOrthoView(flag)
GL_setOrthoView(s, flag) == GL_updateGL([s EXCEPT !.orthoView = flag])

\* mouseMoveEvent with the left button down; rotations in half degrees
GL_mouseMoveEvent(s, dx, dy) ==
  GL_updateGL([s EXCEPT !.rotation = <<s.rotation[1] + dy, s.rotation[2] + dx>>])

\* ~GLWidget()
GL_Destroy(s) ==
  [s EXCEPT !.live = GL_glDeleteLists(GL_glDeleteLists(GL_glDeleteLists(s.live,
                         s.boardList), s.nailList), s.nailsList),
            !.pc = "destroyed"]

\* the number of names one call of initDisplayLists(1) generates
GL_PerCall == Cardinality(GL_initDisplayLists([live |-> {}, boardList |-> 0,
                 nailList |-> 0, nailsList |-> 0], TRUE).live)

\* a further call finds unused names
GL_Room(s) ==
  Cardinality(s.live) + (IF s.pc = "constructed" THEN 2 ELSE 1) * GL_PerCall <= GlMaxLists

\* ---- harness -------------------------------------------------------

\* the widget after its constructor: the rotation is set, the three list
\* members and m_orthoView are not
GlInit ==
  /\ input = Idle
  /\ gj = Idle
  /\ ge = Idle
  /\ tri = Idle
  /\ dg = Idle
  /\ sw = Idle
  /\ qt = Idle
  /\ lu = Idle
  /\ svd = Idle
  /\ mm = Idle
  /\ lls = Idle
  /\ rq = Idle
  /\ mw = Idle
  /\ \E b \in GL_Garbage, n \in GL_Garbage, a \in GL_Garbage, o \in BOOLEAN :
        gl = [pc |-> "constructed", boardList |-> b, nailList |-> n,
              nailsList |-> a, orthoView |-> o, rotation |-> <<0, 0>>, live |-> {}]

\* the widget is shown for the first time
GlInitializeGL ==
  /\ gl.pc = "constructed"
  /\ gl' = GL_initializeGL(gl)
  /\ UNCHANGED <<input, gj, ge, tri, dg, sw, qt, lu, svd, mm, lls, rq, mw>>

\* a paint event
GlPaintGL ==
  /\ gl.pc = "ready"
  /\ GL_Room(gl)
  /\ gl' = GL_paintGL(gl)
  /\ UNCHANGED <<input, gj, ge, tri, dg, sw, qt, lu, svd, mm, lls, rq, mw>>

\* the user drags with the left button
GlMouseMove ==
  /\ gl.pc = "ready"
  /\ GL_Room(gl)
  /\ \E dx \in -1..1, dy \in -1..1 :
        /\ <<dx, dy>> # <<0, 0>>
        /\ gl' = GL_mouseMoveEvent(gl, dx, dy)
        /\ \A k \in 1..2 : gl'.rotation[k] \in -GlMaxTurn..GlMaxTurn
  /\ UNCHANGED <<input, gj, ge, tri, dg, sw, qt, lu, svd, mm, lls, rq, mw>>

\* the reset slot
GlReset ==
  /\ gl.pc \in {"constructed", "ready"}
  /\ GL_Room(gl)
  /\ gl' = GL_reset(gl)
  /\ UNCHANGED <<input, gj, ge, tri, dg, sw, qt, lu, svd, mm, lls, rq, mw>>

\* MainWindow::displayOrtho / displayPersp
GlSetOrthoView ==
  /\ gl.pc \in {"constructed", "ready"}
  /\ GL_Room(gl)
  /\ \E flag \in BOOLEAN : gl' = GL_setOrthoView(gl, flag)
  /\ UNCHANGED <<input, gj, ge, tri, dg, sw, qt, lu, svd, mm, lls, rq, mw>>

\* the widget is destroyed
GlDestroy ==
  /\ gl.pc \in {"constructed", "ready"}
  /\ gl' = GL_Destroy(gl)
  /\ UNCHANGED <<input, gj, ge, tri, dg, sw, qt, lu, svd, mm, lls, rq, mw>>

GlNext ==
  \/ GlInitializeGL
  \/ GlPaintGL
  \/ GlMouseMove
  \/ GlReset
  \/ GlSetOrthoView
  \/ GlDestroy

GlSpec == GlInit /\ [][GlNext]_vars

\* C30: after any sequence of paint, reset and view-change events at most
\* one list each for the board, the nail and the nail array is live (the
\* live lists are those the three members name), and after the destructor
\* none is left.
DisplayListsDoNotAccumulate ==
  /\ gl.pc = "ready" => gl.live = {gl.boardList, gl.nailList, gl.nailsList}
  /\ gl.pc = "destroyed" => gl.live = {}

====
